---- MODULE Spec2Model ----
(***************************************************************************)
(* Model of the resilient batch-classification pipeline of startidy:       *)
(*   - GeminiService.parseBatchClassifierResponse (src/services/gemini.ts) *)
(*   - runWithConcurrency and retryWithBackoff (src/utils/plan-storage.ts) *)
(* Texts are sequences of one-character strings, so that parsing, the      *)
(* truncation repair and the regex fallback work on characters as the      *)
(* source does.                                                            *)
(***************************************************************************)
EXTENDS Integers, Sequences, FiniteSets, TLC

VARIABLES
    \* ---- classifyRepositoriesBatch / parseBatchClassifierResponse ----
    categories,      \* Category[] of the call, as the sequence of their names
    maxPerItem,      \* config.maxCategoriesPerRepo
    repos,           \* BatchRepoInfo[] of the call, as the sequence of their ids
    text,            \* response.text of the oracle
    resultMap,       \* the Map<string, string[]> built by the parser
    parsePath,       \* which stage produced the map: "direct", "repaired", "fallback"
    parsePc,         \* "call" -> "parse" -> "returned" | "raised"
    \* ---- runWithConcurrency ----
    items,           \* items: T[]
    concurrency,     \* concurrency
    failing,         \* the items on which the processor rejects
    results,         \* results: R[] (pre-sized, Hole where nothing was written)
    currentIndex,    \* the shared cursor (0-based, as in the source)
    workers,         \* per worker: [st, index]
    invoked,         \* per item index: how many times processor was called on it
    runPc,           \* "init" | "pending" | "resolved" | "rejected"
    returned,        \* the array handed to the caller on resolve
    settled,         \* the indexes whose processor call settled, in that order
    \* ---- retryWithBackoff ----
    maxRetries, initialDelayMs, maxDelayMs,
    failures,        \* how many leading calls of fn fail
    attempt,         \* loop variable
    calls,           \* how many times fn was invoked
    delays,          \* the delays awaited so far, in order
    lastError,       \* lastError: [from, isError, wrapped], from = 0 for null
    retryPc,         \* "loop" | "delay" | "returned" | "raised"
    \* ---- classifyAndAddRepos (commands classify and run) ----
    command,         \* "classify" | "run": which command's classifyAndAddRepos
    batchSize,       \* config.classifyBatchSize
    orchRepos,       \* repos: Repo[], as the sequence of their ids 1..N
    fetchArgs,       \* per repo: [token, owner, name] handed to fetchRepositoryReadme
    success, failed, \* the two counters
    batchIdx,        \* loop variable of the batch loop
    orchPc,          \* "loop" | "readme" | "classify" | "apply" | "pace" | "done" | "aborted"
    readme,          \* per repo: "none" | "pending" | "null" | "text" | "raised" | "done"
    outcome,         \* per repo: results.get(repoId) of its batch
    cursor,          \* how many repos of the batch the add phase has claimed
    itemSt,          \* per repo: "idle" | "calling" | "delay" | "ok" | "failed" | "unmapped" | "skipped"
    failsFirst,      \* per repo: how many leading attempts of its assignment fail
    attempts,        \* per repo: how many times the assignment was attempted
    addCalls,        \* per repo: how many times addRepoToGitHubLists was called
    itemDelays,      \* per repo: the backoff delays awaited, in order
    addResults,      \* per repo: [done, success, error], the entry of addResults
    counted,         \* per repo: how many times a counter was raised for it
    reported,        \* the result lines printed: [id, ok, reason]
    slices,          \* the batchRepos taken so far, in order
    oracleLog,       \* per oracle call made, in order: did it succeed
    paced,           \* the batch indexes after which the inter-batch delay was awaited
    \* ---- the actions of the commands run and classify ----
    cli,             \* [name, onlyNew, dryRun, useExisting]: the command line
    stars,           \* the starred repositories of the user
    ghLists,         \* the names of the lists the backend holds
    members,         \* the pairs <<list name, repo>> the backend holds
    beyondPage,      \* the pairs past the first 100 items of their list
    planFile,        \* [exists, categories]: the stored plan
    cmdPc,           \* the step the action is at, "returned" | "exit0" | "exit1" at its end
    cmdRepos,        \* repos: the repositories to process
    cmdCategories,   \* categories
    createdLists,    \* the names that createdLists maps to a list
    pending,         \* what the loop under way has left: names or repos
    cmdOutcome,      \* per repo: its entry in the map of the classification call
    log,             \* the oracle calls and backend mutations made: [op, ok]
    shown,           \* displayDryRunResults was called
    \* ---- deleteAllGitHubLists ----
    deleteTotal,     \* total: lists.lists.length
    deletedCount,    \* deletedCount
    deleteLog,       \* the deleteGitHubList calls made, in order: [name, ok]
    progress         \* the calls of onProgress, in order: <<deleted, total>>

parseVars == <<categories, maxPerItem, repos, text, resultMap, parsePath, parsePc>>
runVars == <<items, concurrency, failing, results, currentIndex, workers, invoked, runPc, returned,
            settled>>
retryVars == <<maxRetries, initialDelayMs, maxDelayMs, failures, attempt, calls, delays, lastError, retryPc>>
orchVars == <<command, batchSize, orchRepos, fetchArgs, success, failed, batchIdx, orchPc, readme, outcome,
             cursor, itemSt, failsFirst, attempts, addCalls, itemDelays, addResults, counted,
             reported, slices, oracleLog, paced>>
cmdVars == <<cli, stars, ghLists, members, beyondPage, planFile, cmdPc, cmdRepos, cmdCategories,
            createdLists, pending, cmdOutcome, log, shown, deleteTotal, deletedCount, deleteLog,
            progress>>
vars == <<parseVars, runVars, retryVars, orchVars, cmdVars>>

----------------------------------------------------------------------------
(* Characters and strings *)

Q == "\""
SP == " "

KeyResults == <<"r", "e", "s", "u", "l", "t", "s">>
KeyId == <<"i", "d">>
KeyCategories == <<"c", "a", "t", "e", "g", "o", "r", "i", "e", "s">>
LangEtc == <<"L", "a", "n", "g", ":", " ", "E", "T", "C">>

Max(a, b) == IF a >= b THEN a ELSE b
Min(a, b) == IF a <= b THEN a ELSE b

\* s.slice(from) / s.slice(0, to) on 1-based positions
Drop(s, n) == SubSeq(s, n + 1, Len(s))
Take(s, n) == SubSeq(s, 1, n)

\* Array.prototype.slice(0, end): a negative end counts from the end
Slice0(s, end) ==
    LET e == IF end < 0 THEN Max(Len(s) + end, 0) ELSE Min(end, Len(s))
    IN  Take(s, e)

RECURSIVE Repeat(_, _)
Repeat(c, n) == IF n <= 0 THEN <<>> ELSE <<c>> \o Repeat(c, n - 1)

CountChar(s, c) == Cardinality({i \in 1..Len(s) : s[i] = c})
Includes(s, c) == \E i \in 1..Len(s) : s[i] = c

\* 1-based position of the last c in s, 0 when there is none
LastIndexOf(s, c) ==
    IF Includes(s, c) THEN CHOOSE i \in 1..Len(s) : s[i] = c /\ \A j \in (i+1)..Len(s) : s[j] # c
    ELSE 0

\* 1-based position of the first c in s at or after p, 0 when there is none
IndexFrom(s, c, p) ==
    IF \E i \in p..Len(s) : s[i] = c
    THEN CHOOSE i \in p..Len(s) : s[i] = c /\ \A j \in p..(i-1) : s[j] # c
    ELSE 0

RECURSIVE SkipWs(_, _)
SkipWs(s, p) == IF p <= Len(s) /\ s[p] = SP THEN SkipWs(s, p + 1) ELSE p

RECURSIVE TrimEnd(_)
TrimEnd(s) == IF Len(s) > 0 /\ s[Len(s)] = SP THEN TrimEnd(Take(s, Len(s) - 1)) ELSE s

\* String.prototype.trim
Trim(s) == TrimEnd(Drop(s, SkipWs(s, 1) - 1))

\* s has the literal lit at position p
MatchAt(s, p, lit) ==
    /\ p + Len(lit) - 1 <= Len(s)
    /\ \A i \in 1..Len(lit) : s[p + i - 1] = lit[i]

StrLit(s) == <<Q>> \o s \o <<Q>>

----------------------------------------------------------------------------
(* JSON.parse on the characters of the model's alphabet.  A value is a     *)
(* record [t, s, e, k]: t the type, s the characters of a string, e the    *)
(* elements of an array or the member values of an object, k the member    *)
(* keys of an object.                                                      *)

JNull == [t |-> "null", s |-> <<>>, e |-> <<>>, k |-> <<>>]
JBool(b) == [t |-> IF b THEN "true" ELSE "false", s |-> <<>>, e |-> <<>>, k |-> <<>>]
JStr(s) == [t |-> "str", s |-> s, e |-> <<>>, k |-> <<>>]
JArr(e) == [t |-> "arr", s |-> <<>>, e |-> e, k |-> <<>>]
JObj(k, e) == [t |-> "obj", s |-> <<>>, e |-> e, k |-> k]
\* the value of a property that is not there
Undefined == [t |-> "undefined", s |-> <<>>, e |-> <<>>, k |-> <<>>]

SyntaxError == [ok |-> FALSE, v |-> JNull, p |-> 0]
Parsed(v, p) == [ok |-> TRUE, v |-> v, p |-> p]

\* a string literal whose opening quote is at p
ParseString(s, p) ==
    LET c == IndexFrom(s, Q, p + 1)
    IN  IF c = 0 THEN SyntaxError ELSE Parsed(JStr(SubSeq(s, p + 1, c - 1)), c + 1)

RECURSIVE ParseValue(_, _), ArrayItems(_, _, _), ObjectMembers(_, _, _, _)

ParseValue(s, p0) ==
    LET p == SkipWs(s, p0)
    IN  IF p > Len(s) THEN SyntaxError
        ELSE IF s[p] = Q THEN ParseString(s, p)
        ELSE IF s[p] = "[" THEN
            LET q == SkipWs(s, p + 1)
            IN  IF q <= Len(s) /\ s[q] = "]" THEN Parsed(JArr(<<>>), q + 1)
                ELSE ArrayItems(s, q, <<>>)
        ELSE IF s[p] = "{" THEN
            LET q == SkipWs(s, p + 1)
            IN  IF q <= Len(s) /\ s[q] = "}" THEN Parsed(JObj(<<>>, <<>>), q + 1)
                ELSE ObjectMembers(s, q, <<>>, <<>>)
        ELSE IF MatchAt(s, p, <<"n", "u", "l", "l">>) THEN Parsed(JNull, p + 4)
        ELSE IF MatchAt(s, p, <<"t", "r", "u", "e">>) THEN Parsed(JBool(TRUE), p + 4)
        ELSE IF MatchAt(s, p, <<"f", "a", "l", "s", "e">>) THEN Parsed(JBool(FALSE), p + 5)
        ELSE SyntaxError

ArrayItems(s, p, acc) ==
    LET r == ParseValue(s, p)
    IN  IF ~r.ok THEN SyntaxError
        ELSE LET q == SkipWs(s, r.p)
             IN  IF q > Len(s) THEN SyntaxError
                 ELSE IF s[q] = "," THEN ArrayItems(s, q + 1, Append(acc, r.v))
                 ELSE IF s[q] = "]" THEN Parsed(JArr(Append(acc, r.v)), q + 1)
                 ELSE SyntaxError

ObjectMembers(s, p0, ks, vs) ==
    LET p == SkipWs(s, p0)
    IN  IF p > Len(s) \/ s[p] # Q THEN SyntaxError
        ELSE LET key == ParseString(s, p)
             IN  IF ~key.ok THEN SyntaxError
                 ELSE LET c == SkipWs(s, key.p)
                      IN  IF c > Len(s) \/ s[c] # ":" THEN SyntaxError
                          ELSE LET r == ParseValue(s, c + 1)
                               IN  IF ~r.ok THEN SyntaxError
                                   ELSE LET q == SkipWs(s, r.p)
                                        IN  IF q > Len(s) THEN SyntaxError
                                            ELSE IF s[q] = "," THEN
                                                ObjectMembers(s, q + 1, Append(ks, key.v.s), Append(vs, r.v))
                                            ELSE IF s[q] = "}" THEN
                                                Parsed(JObj(Append(ks, key.v.s), Append(vs, r.v)), q + 1)
                                            ELSE SyntaxError

\* JSON.parse(s): one value, then nothing but white space
JsonParse(s) ==
    LET r == ParseValue(s, 1)
    IN  IF r.ok /\ SkipWs(s, r.p) > Len(s) THEN r ELSE SyntaxError

\* o.key for a parsed object: the last member of that name wins
GetProp(o, key) ==
    IF o.t = "obj" /\ \E i \in 1..Len(o.k) : o.k[i] = key
    THEN o.e[CHOOSE i \in 1..Len(o.k) : o.k[i] = key /\ \A j \in (i+1)..Len(o.k) : o.k[j] # key]
    ELSE Undefined

\* !v is false
Truthy(v) == v.t \in {"true", "arr", "obj"} \/ (v.t = "str" /\ v.s # <<>>)

----------------------------------------------------------------------------
(* The Map<string, string[]> resultMap: a sequence of entries [k, v] in    *)
(* insertion order, k a parsed value (the key), v a sequence of names.     *)

\* Map.prototype.has for a key that is a string or a boolean
MapHas(m, key) == \E i \in 1..Len(m) : m[i].k = key

MapGet(m, key) == m[CHOOSE i \in 1..Len(m) : m[i].k = key].v

\* Map.prototype.set: a primitive key replaces the entry it equals, an
\* object or array key is a new key (keys are compared by identity)
MapSet(m, key, val) ==
    IF key.t \in {"str", "true"} /\ MapHas(m, key)
    THEN [i \in 1..Len(m) |-> IF m[i].k = key THEN [k |-> key, v |-> val] ELSE m[i]]
    ELSE Append(m, [k |-> key, v |-> val])

\* a set that also holds the lower-case spelling of every name
ValidCategoryNamesAnyCase(cats) ==
    {cats[i] : i \in 1..Len(cats)} \cup
    {[j \in 1..Len(cats[i]) |-> IF cats[i][j] = "A" THEN "a"
                                ELSE IF cats[i][j] = "B" THEN "b" ELSE cats[i][j]] :
        i \in 1..Len(cats)}

\* new Set(categories.map((c) => c.name))
ValidCategoryNames(cats) == {cats[i] : i \in 1..Len(cats)}

\* categories[0]?.name || "Lang: ETC"
DefaultCategory(cats) == IF Len(cats) > 0 /\ cats[1] # <<>> THEN cats[1] ELSE LangEtc

\* Remove incomplete part after the last complete object; last is 1-based,
\* so the source's lastCompleteIdx > 0 is last > 1
DropIncomplete(jsonStr, last) ==
    IF last > 1 /\ Includes(Drop(jsonStr, last), "{") /\ ~Includes(Drop(jsonStr, last), "}")
    THEN Take(jsonStr, last)
    ELSE jsonStr

\* a repair without the endsWith("}") test around it
RepairTruncatedUnguarded(jsonStr) ==
    DropIncomplete(jsonStr, LastIndexOf(jsonStr, "}"))
        \o Repeat("]", Max(0, CountChar(jsonStr, "[") - CountChar(jsonStr, "]")))
        \o Repeat("}", Max(0, CountChar(jsonStr, "{") - CountChar(jsonStr, "}")))

\* the truncation repair of jsonStr (already trimmed); the delimiters are
\* counted before the incomplete part is removed
RepairTruncated(jsonStr) ==
    IF Len(jsonStr) > 0 /\ jsonStr[Len(jsonStr)] = "}" THEN jsonStr
    ELSE DropIncomplete(jsonStr, LastIndexOf(jsonStr, "}"))
            \o Repeat("]", Max(0, CountChar(jsonStr, "[") - CountChar(jsonStr, "]")))
            \o Repeat("}", Max(0, CountChar(jsonStr, "{") - CountChar(jsonStr, "}")))

\* result.categories.filter((c) => validCategoryNames.has(c)).slice(0, max)
\* a filter that forgets the slice
FilterValidNoSlice(elems, valid, max) ==
    LET keep(c) == c.t = "str" /\ c.s \in valid
        kept == SelectSeq(elems, keep)
    IN  [i \in 1..Len(kept) |-> kept[i].s]

FilterValid(elems, valid, max) ==
    LET keep(c) == c.t = "str" /\ c.s \in valid
        kept == SelectSeq(elems, keep)
    IN  Slice0([i \in 1..Len(kept) |-> kept[i].s], max)

\* the for loop over parsed.results; a null element makes result.id throw a
\* TypeError, which leaves the entries set so far in the map
\* validCategories.length > 0 ? validCategories : [defaultCategory]
OrDefault(validCategories, cats) ==
    IF Len(validCategories) > 0 THEN validCategories ELSE <<DefaultCategory(cats)>>

RECURSIVE ResultsLoop(_, _, _, _, _)
ResultsLoop(elems, i, m, cats, max) ==
    IF i > Len(elems) THEN [threw |-> FALSE, map |-> m]
    ELSE IF elems[i].t = "null" THEN [threw |-> TRUE, map |-> m]
    ELSE IF ~Truthy(GetProp(elems[i], KeyId)) \/ GetProp(elems[i], KeyCategories).t # "arr"
    THEN ResultsLoop(elems, i + 1, m, cats, max)
    ELSE ResultsLoop(elems, i + 1,
            MapSet(m, GetProp(elems[i], KeyId),
                   OrDefault(FilterValid(GetProp(elems[i], KeyCategories).e,
                                         ValidCategoryNames(cats), max), cats)),
            cats, max)

\* for (const repo of repos) if (!resultMap.has(repo.id)) resultMap.set(repo.id, [defaultCategory])
RECURSIVE FillDefaults(_, _, _, _)
FillDefaults(m, rs, i, cats) ==
    IF i > Len(rs) THEN m
    ELSE FillDefaults(IF MapHas(m, JStr(rs[i])) THEN m
                      ELSE MapSet(m, JStr(rs[i]), <<DefaultCategory(cats)>>),
                      rs, i + 1, cats)

\* the try block after the loop over parsed.results
AfterLoop(l, rep, rs, cats) ==
    IF l.threw THEN [threw |-> TRUE, map |-> l.map, repaired |-> rep]
    ELSE [threw |-> FALSE, map |-> FillDefaults(l.map, rs, 1, cats), repaired |-> rep]

\* the try block after const parsed = JSON.parse(jsonStr)
AfterJsonParse(r, rep, rs, cats, max) ==
    IF ~r.ok THEN [threw |-> TRUE, map |-> <<>>, repaired |-> rep]
    \* parsed.results of null is a TypeError
    ELSE IF r.v.t = "null" THEN [threw |-> TRUE, map |-> <<>>, repaired |-> rep]
    \* throw new Error("Invalid response structure")
    ELSE IF ~Truthy(GetProp(r.v, KeyResults)) \/ GetProp(r.v, KeyResults).t # "arr"
    THEN [threw |-> TRUE, map |-> <<>>, repaired |-> rep]
    ELSE AfterLoop(ResultsLoop(GetProp(r.v, KeyResults).e, 1, <<>>, cats, max), rep, rs, cats)

\* jsonStr.endsWith("}")
EndsWithBrace(jsonStr) == Len(jsonStr) > 0 /\ jsonStr[Len(jsonStr)] = "}"

\* the try block from let jsonStr = text.trim() on
TryTrimmed(trimmed, rs, cats, max) ==
    AfterJsonParse(JsonParse(RepairTruncated(trimmed)), ~EndsWithBrace(trimmed), rs, cats, max)

\* the body of the try block: [threw, map, repaired]
TryBlock(txt, rs, cats, max) == TryTrimmed(Trim(txt), rs, cats, max)

----------------------------------------------------------------------------
(* The catch block.  linePattern is matched on the characters of the raw   *)
(* text: the id key, a colon, a quoted non-empty id, any characters but a  *)
(* closing brace, the categories key, a colon, an opening bracket, any     *)
(* characters but a closing bracket, a closing bracket; white space may    *)
(* surround the colons.                                                    *)

NoMatch == [ok |-> FALSE, id |-> <<>>, body |-> <<>>, end |-> 0]

\* the opening bracket of the categories part that starts at q, 0 when
\* the part does not match there
CategoriesOpen(s, q) ==
    IF ~MatchAt(s, q, StrLit(KeyCategories)) THEN 0
    ELSE IF SkipWs(s, q + Len(KeyCategories) + 2) > Len(s) THEN 0
    ELSE IF s[SkipWs(s, q + Len(KeyCategories) + 2)] # ":" THEN 0
    ELSE IF SkipWs(s, SkipWs(s, q + Len(KeyCategories) + 2) + 1) > Len(s) THEN 0
    ELSE IF s[SkipWs(s, SkipWs(s, q + Len(KeyCategories) + 2) + 1)] # "[" THEN 0
    ELSE IF IndexFrom(s, "]", SkipWs(s, SkipWs(s, q + Len(KeyCategories) + 2) + 1) + 1) = 0 THEN 0
    ELSE SkipWs(s, SkipWs(s, q + Len(KeyCategories) + 2) + 1)

\* where the categories part can start after the id that closes at c: no
\* closing brace in between
CategoriesStarts(s, c) ==
    {q \in (c + 1)..Len(s) : (\A j \in (c + 1)..(q - 1) : s[j] # "}") /\ CategoriesOpen(s, q) # 0}

\* the match whose id is s[b+1..c-1] and whose categories list opens at open
MatchFrom(s, b, c, open) ==
    [ok |-> TRUE, id |-> SubSeq(s, b + 1, c - 1),
     body |-> SubSeq(s, open + 1, IndexFrom(s, "]", open + 1) - 1),
     end |-> IndexFrom(s, "]", open + 1)]

\* the part of the pattern between the id and the categories is greedy: the
\* last start wins
MatchCategories(s, b, c, starts) ==
    IF starts = {} THEN NoMatch
    ELSE MatchFrom(s, b, c, CategoriesOpen(s, CHOOSE x \in starts : \A y \in starts : y <= x))

\* the id opens at b and closes at c
MatchIdClose(s, b, c) ==
    IF c > b + 1 THEN MatchCategories(s, b, c, CategoriesStarts(s, c)) ELSE NoMatch

MatchIdOpen(s, b) ==
    IF b <= Len(s) /\ s[b] = Q THEN MatchIdClose(s, b, IndexFrom(s, Q, b + 1)) ELSE NoMatch

MatchColon(s, a) ==
    IF a <= Len(s) /\ s[a] = ":" THEN MatchIdOpen(s, SkipWs(s, a + 1)) ELSE NoMatch

\* one attempt of linePattern at position p: [ok, id, body, end]
PatternAt(s, p) ==
    IF MatchAt(s, p, StrLit(KeyId)) THEN MatchColon(s, SkipWs(s, p + Len(KeyId) + 2)) ELSE NoMatch

\* String.prototype.split(",")
RECURSIVE SplitComma(_)
SplitComma(s) ==
    IF IndexFrom(s, ",", 1) = 0 THEN <<s>>
    ELSE <<Take(s, IndexFrom(s, ",", 1) - 1)>> \o SplitComma(Drop(s, IndexFrom(s, ",", 1)))

\* s.trim() with every quote character removed
Unquote(s) == SelectSeq(Trim(s), LAMBDA ch : ch # Q)

\* categoriesStr.split(",").map(...).filter(has).slice(0, max)
UnquoteAll(parts) == [i \in 1..Len(parts) |-> Unquote(parts[i])]

FallbackCats(body, valid, max) ==
    Slice0(SelectSeq(UnquoteAll(SplitComma(body)), LAMBDA n : n \in valid), max)

\* while ((match = linePattern.exec(text)) !== null): the next match starts
\* where the last one ended; the first entry of an id wins
\* if (cats.length > 0 && !resultMap.has(id)) resultMap.set(id, cats)
SetAlways(m, key, cs) == IF Len(cs) > 0 THEN MapSet(m, key, cs) ELSE m

SetIfNew(m, key, cs) == IF Len(cs) > 0 /\ ~MapHas(m, key) THEN MapSet(m, key, cs) ELSE m

RECURSIVE ExecLoop(_, _, _, _, _)

ExecMatch(s, match, m, cats, max) ==
    ExecLoop(s, match.end + 1,
             SetIfNew(m, JStr(match.id), FallbackCats(match.body, ValidCategoryNames(cats), max)),
             cats, max)

ExecStarts(s, starts, m, cats, max) ==
    IF starts = {} THEN m
    ELSE ExecMatch(s, PatternAt(s, CHOOSE x \in starts : \A y \in starts : x <= y), m, cats, max)

ExecLoop(s, from, m, cats, max) ==
    ExecStarts(s, {p \in from..Len(s) : PatternAt(s, p).ok}, m, cats, max)

\* a catch block that forgets the ids the pattern did not find
CatchBlockNoFill(txt, m, rs, cats, max) == ExecLoop(txt, 1, m, cats, max)

CatchBlock(txt, m, rs, cats, max) ==
    FillDefaults(ExecLoop(txt, 1, m, cats, max), rs, 1, cats)

\* parseBatchClassifierResponse(text, repos, categories): what the call
\* does (returns the map, or raises), the map, and the stage that made it
\* a catch block that throws again what it caught
AfterTryRethrow(t, txt, rs, cats, max) ==
    IF t.threw
    THEN [raised |-> TRUE, map |-> t.map, path |-> "fallback"]
    ELSE [raised |-> FALSE, map |-> t.map,
          path |-> IF t.repaired THEN "repaired" ELSE "direct"]

\* the catch block swallows what the try block threw
AfterTry(t, txt, rs, cats, max) ==
    IF t.threw
    THEN [raised |-> FALSE, map |-> CatchBlock(txt, t.map, rs, cats, max),
          path |-> "fallback"]
    ELSE [raised |-> FALSE, map |-> t.map,
          path |-> IF t.repaired THEN "repaired" ELSE "direct"]

ParseBatchClassifierResponse(txt, rs, cats, max) ==
    AfterTry(TryBlock(txt, rs, cats, max), txt, rs, cats, max)

----------------------------------------------------------------------------
(* The inputs of one classifyRepositoriesBatch call: the category set, the *)
(* configured maximum, the batch, and the text the oracle answers with.    *)

MaxResults == 2          \* entries in the results array of a response

CatA == <<"A">>
CatB == <<"B">>
CatU == <<"U">>          \* a name the oracle invents: in no category set
RepoP == <<"p">>
RepoQ == <<"q">>
RepoZ == <<"z">>         \* an id the oracle returns that is in no batch
CatLower == <<"a">>      \* the first category in another case
CatBr == <<"[", "{">>    \* an invented name made of delimiters

CategorySets == {<<CatA, CatB>>, <<>>}
\* parseIntEnv("MAX_CATEGORIES_PER_REPO", 3) yields any integer
MaxPerItemValues == {-1, 0, 1, 2}
Batches == {<<RepoP>>, <<RepoP, RepoQ>>}

RECURSIVE JoinWith(_, _)
JoinWith(parts, sep) ==
    IF Len(parts) = 0 THEN <<>>
    ELSE IF Len(parts) = 1 THEN parts[1]
    ELSE parts[1] \o sep \o JoinWith(Tail(parts), sep)

\* {"id":"<id>","categories":["c1","c2"]}; gap is the white space the
\* oracle puts after colons and commas
EntryText(id, cats, gap) ==
    <<"{">> \o StrLit(KeyId) \o <<":">> \o gap \o StrLit(id) \o <<",">> \o gap
            \o StrLit(KeyCategories) \o <<":">> \o gap \o <<"[">>
            \o JoinWith([i \in 1..Len(cats) |-> StrLit(cats[i])], <<",">> \o gap)
            \o <<"]", "}">>

EntryPool ==
    { EntryText(RepoP, <<CatA, CatB>>, <<>>),
      EntryText(RepoP, <<CatU>>, <<>>),
      EntryText(RepoQ, <<CatB, CatU, CatA>>, <<SP>>),
      EntryText(RepoQ, <<>>, <<>>),
      EntryText(RepoZ, <<CatA>>, <<>>),
      EntryText(RepoP, <<CatA, CatA>>, <<>>),
      EntryText(RepoP, <<CatLower, CatBr, CatB>>, <<>>),
      <<"n", "u", "l", "l">>,
      <<"{">> \o StrLit(KeyCategories) \o <<":", "[">> \o StrLit(CatA) \o <<"]", "}">>,
      <<"{">> \o StrLit(KeyId) \o <<":">> \o StrLit(RepoQ) \o <<",">>
              \o StrLit(KeyCategories) \o <<":">> \o StrLit(CatA) \o <<"}">> }

\* {"results":[e1,e2]}
ResponseText(entries) ==
    <<"{">> \o StrLit(KeyResults) \o <<":", "[">> \o JoinWith(entries, <<",">>) \o <<"]", "}">>

EntrySeqs == UNION {[1..n -> EntryPool] : n \in 0..MaxResults}

WellFormedTexts == {ResponseText(es) : es \in EntrySeqs}

\* a response cut off after k characters (the output-token limit)
Truncations(t) == {Take(t, k) : k \in 0..Len(t)}

\* a response that lost one character
Deletions(t) == {Take(t, k - 1) \o Drop(t, k) : k \in 1..Len(t)}

\* a response with white space around it
Padded(t) == <<SP>> \o t \o <<SP>>

\* the responses of at most one entry
ShortTexts == {ResponseText(es) : es \in [1..1 -> EntryPool] \cup {<<>>}}

\* responses of three entries: one item answered twice before the last
\* item; an id of no batch between the two items of the batch; one item
\* answered twice before a null
LongSeqs ==
    { <<EntryText(RepoP, <<CatA, CatB>>, <<>>), EntryText(RepoP, <<CatU>>, <<>>),
        EntryText(RepoQ, <<CatB, CatU, CatA>>, <<SP>>)>>,
      <<EntryText(RepoP, <<CatA, CatB>>, <<>>), EntryText(RepoZ, <<CatA>>, <<>>),
        EntryText(RepoQ, <<CatB, CatU, CatA>>, <<SP>>)>>,
      <<EntryText(RepoP, <<CatA, CatB>>, <<>>), EntryText(RepoP, <<CatU>>, <<>>),
        <<"n", "u", "l", "l">>>> }

LongTexts == {ResponseText(es) : es \in LongSeqs}

OracleTexts ==
    UNION {Truncations(t) : t \in WellFormedTexts \cup LongTexts}
        \cup UNION {Deletions(t) : t \in ShortTexts}
        \cup {Padded(t) : t \in ShortTexts}

ParseInit ==
    /\ categories \in CategorySets
    /\ maxPerItem \in MaxPerItemValues
    /\ repos \in Batches
    /\ text = <<>>
    /\ resultMap = <<>>
    /\ parsePath = "none"
    /\ parsePc = "call"

\* classifyRepositoriesBatch: response.text || ""
GenerateContent ==
    /\ parsePc = "call"
    /\ text' \in OracleTexts
    /\ parsePc' = "parse"
    /\ UNCHANGED <<categories, maxPerItem, repos, resultMap, parsePath>>
    /\ UNCHANGED <<runVars, retryVars, orchVars, cmdVars>>

\* return this.parseBatchClassifierResponse(text, repos, categories)
ParseDone(r) ==
    /\ resultMap' = r.map
    /\ parsePath' = r.path
    /\ parsePc' = IF r.raised THEN "raised" ELSE "returned"

Parse ==
    /\ parsePc = "parse"
    /\ ParseDone(ParseBatchClassifierResponse(text, repos, categories, maxPerItem))
    /\ UNCHANGED <<categories, maxPerItem, repos, text>>
    /\ UNCHANGED <<runVars, retryVars, orchVars, cmdVars>>

\* the state of a component no call of which is under way
\* let lastError: Error | null = null
NullError == [from |-> 0, isError |-> FALSE, wrapped |-> FALSE]

ParseIdle ==
    /\ categories = <<>> /\ maxPerItem = 0 /\ repos = <<>> /\ text = <<>>
    /\ resultMap = <<>> /\ parsePath = "none" /\ parsePc = "idle"

RunIdle ==
    /\ items = <<>> /\ concurrency = 0 /\ failing = {} /\ results = <<>>
    /\ currentIndex = 0 /\ workers = <<>> /\ invoked = <<>> /\ runPc = "idle"
    /\ returned = <<>> /\ settled = <<>>

RetryIdle ==
    /\ maxRetries = 0 /\ initialDelayMs = 0 /\ maxDelayMs = 0 /\ failures = 0
    /\ attempt = 0 /\ calls = 0 /\ delays = <<>> /\ lastError = NullError /\ retryPc = "idle"

OrchIdle ==
    /\ command = "none" /\ batchSize = 0 /\ orchRepos = <<>> /\ fetchArgs = <<>>
    /\ success = 0 /\ failed = 0 /\ batchIdx = 0 /\ orchPc = "idle"
    /\ readme = <<>> /\ outcome = <<>> /\ cursor = 0 /\ itemSt = <<>>
    /\ failsFirst = <<>> /\ attempts = <<>> /\ addCalls = <<>> /\ itemDelays = <<>>
    /\ addResults = <<>> /\ counted = <<>> /\ reported = <<>> /\ slices = <<>>
    /\ oracleLog = <<>> /\ paced = {}

NoCli == [name |-> "none", onlyNew |-> FALSE, dryRun |-> FALSE, useExisting |-> FALSE]
NoPlan == [exists |-> FALSE, categories |-> <<>>]

CmdIdle ==
    /\ cli = NoCli /\ stars = {} /\ ghLists = {} /\ members = {} /\ planFile = NoPlan
    /\ cmdPc = "idle" /\ cmdRepos = <<>> /\ cmdCategories = <<>> /\ createdLists = {}
    /\ pending = <<>> /\ cmdOutcome = <<>> /\ log = <<>> /\ shown = FALSE
    /\ beyondPage = {} /\ deleteTotal = 0 /\ deletedCount = 0 /\ deleteLog = <<>>
    /\ progress = <<>>

ParseNext == GenerateContent \/ Parse

InitParse == ParseInit /\ RunIdle /\ RetryIdle /\ OrchIdle /\ CmdIdle

SpecParse == InitParse /\ [][ParseNext]_vars

----------------------------------------------------------------------------
(* Claims about parseBatchClassifierResponse, checked under SpecParse.     *)

Outcomes == {resultMap[j] : j \in 1..Len(resultMap)}
EntriesOf(id) == {j \in 1..Len(resultMap) : resultMap[j].k = JStr(id)}

\* C1: whatever the raw text, the returned map holds exactly one outcome
\* for every target id of the batch.
C1_TotalCoverage ==
    parsePc = "returned" =>
        \A i \in 1..Len(repos) : Cardinality(EntriesOf(repos[i])) = 1

\* a broken text in which the pattern finds one id and the other is filled in
C1_Witness ==
    /\ parsePc = "returned" /\ parsePath = "fallback"
    /\ repos = <<RepoP, RepoQ>> /\ categories = <<CatA, CatB>> /\ maxPerItem = 2
    /\ MapGet(resultMap, JStr(RepoP)) = <<CatA, CatB>>
    /\ MapGet(resultMap, JStr(RepoQ)) = <<CatA>>
    /\ CountChar(text, "{") > CountChar(text, "}")

\* C2 as claimed: every outcome has between 1 and maxPerItem categories,
\* for any configured maxCategoriesPerRepo.
C2_CardinalityAnyMax ==
    parsePc = "returned" =>
        \A o \in Outcomes : 1 <= Len(o.v) /\ Len(o.v) <= maxPerItem

\* C2 amended: every outcome has between 1 and maxPerItem categories when
\* the configured maxCategoriesPerRepo is at least 1.
C2_CardinalityMaxAtLeastOne ==
    (parsePc = "returned" /\ maxPerItem >= 1) =>
        \A o \in Outcomes : 1 <= Len(o.v) /\ Len(o.v) <= maxPerItem

\* two valid names were returned for an item and the maximum of 1 cut them
C2_Witness ==
    /\ parsePc = "returned" /\ parsePath = "direct" /\ maxPerItem = 1
    /\ categories = <<CatA, CatB>>
    /\ text = ResponseText(<<EntryText(RepoP, <<CatA, CatB>>, <<>>)>>)
    /\ MapGet(resultMap, JStr(RepoP)) = <<CatA>>

\* C3: every category name of every outcome is a name of the category set
\* of the call, the default fill included.
C3_ClosedSet ==
    parsePc = "returned" =>
        \A o \in Outcomes : \A n \in 1..Len(o.v) : o.v[n] \in ValidCategoryNames(categories)

\* C4: the call never raises; when the structured parse throws, the map is
\* what the pattern extracts plus the default fill.
C4_NeverRaises ==
    /\ parsePc # "raised"
    /\ (parsePc = "returned" /\ parsePath = "fallback") =>
          \A i \in 1..Len(repos) : MapHas(resultMap, JStr(repos[i]))

\* JSON.parse threw on the repaired text, the pattern found nothing and the
\* whole batch was filled with the default
C4_Witness ==
    /\ parsePc = "returned" /\ parsePath = "fallback"
    /\ Len(text) > 0
    /\ ~JsonParse(RepairTruncated(Trim(text))).ok
    /\ repos = <<RepoP, RepoQ>> /\ categories = <<CatA, CatB>>
    /\ resultMap = <<[k |-> JStr(RepoP), v |-> <<CatA>>], [k |-> JStr(RepoQ), v |-> <<CatA>>]>>


\* ---- the entries of a response as the structured parse sees them ----
ClosedSet == {categories[i] : i \in 1..Len(categories)}

\* the elements of parsed.results, <<>> when the text has no such array
ResultsIn(r) ==
    IF r.ok /\ r.v.t = "obj" /\ GetProp(r.v, KeyResults).t = "arr"
    THEN GetProp(r.v, KeyResults).e ELSE <<>>

\* the entries of an item: those with its id and an array of categories
ItemEntries(elems, id) ==
    {j \in 1..Len(elems) :
        /\ elems[j].t = "obj"
        /\ GetProp(elems[j], KeyId) = JStr(id)
        /\ GetProp(elems[j], KeyCategories).t = "arr"}

\* the names of the array of categories of entry j
RawList(elems, j) ==
    [n \in 1..Len(GetProp(elems[j], KeyCategories).e) |-> GetProp(elems[j], KeyCategories).e[n].s]

LastOf(S) == CHOOSE x \in S : \A y \in S : y <= x
InClosedSet(name) == name \in ClosedSet
HasClosedName(raw) == \E n \in 1..Len(raw) : raw[n] \in ClosedSet
FirstN(s, n) == SubSeq(s, 1, Min(Max(n, 0), Len(s)))

\* the raw list of the item is that of its last entry in the response
FilteredAndCut(elems) ==
    \A i \in 1..Len(repos) :
        (/\ ItemEntries(elems, repos[i]) # {}
         /\ HasClosedName(RawList(elems, LastOf(ItemEntries(elems, repos[i]))))) =>
            MapGet(resultMap, JStr(repos[i])) =
                FirstN(SelectSeq(RawList(elems, LastOf(ItemEntries(elems, repos[i]))),
                                 InClosedSet),
                       maxPerItem)

\* C26 as stated: in a response that parses, an item whose raw list has a
\* name of the closed set gets that list filtered to the names of the set,
\* in order, cut to the first maxPerItem, for any maxPerItem.
C26_FilterCutAnyMax ==
    (parsePc = "returned" /\ parsePath = "direct") =>
        FilteredAndCut(ResultsIn(JsonParse(Trim(text))))

\* C26 amended: the same for a configured maxCategoriesPerRepo of at least 1.
C26_FilterCutMaxAtLeastOne ==
    (parsePc = "returned" /\ parsePath = "direct" /\ maxPerItem >= 1) =>
        FilteredAndCut(ResultsIn(JsonParse(Trim(text))))

\* a name in another case and an invented name are dropped, the order of
\* the rest is kept and the maximum of 1 cuts it
C26_Witness ==
    /\ parsePc = "returned" /\ parsePath = "direct" /\ maxPerItem = 1
    /\ categories = <<CatA, CatB>> /\ repos = <<RepoP, RepoQ>>
    /\ text = ResponseText(<<EntryText(RepoP, <<CatLower, CatBr, CatB>>, <<>>),
                             EntryText(RepoQ, <<CatB, CatU, CatA>>, <<SP>>)>>)
    /\ MapGet(resultMap, JStr(RepoP)) = <<CatB>>
    /\ MapGet(resultMap, JStr(RepoQ)) = <<CatB>>

\* C27: in a response that parses, an item none of whose entries has a name
\* of the closed set, and an item without an entry, get the one-element
\* list holding the first category of the configured set.
C27_DefaultIsFirstCategory ==
    (parsePc = "returned" /\ parsePath = "direct") =>
        \A i \in 1..Len(repos) :
            (\A j \in ItemEntries(ResultsIn(JsonParse(Trim(text))), repos[i]) :
                ~HasClosedName(RawList(ResultsIn(JsonParse(Trim(text))), j))) =>
                /\ Len(categories) > 0
                /\ MapGet(resultMap, JStr(repos[i])) = <<categories[1]>>

\* ---- responses cut off inside the category array of the last entry ----
\* the entries of the pool that have an id and an array of categories
ArrayEntries ==
    {e \in EntryPool :
        /\ JsonParse(e).ok /\ JsonParse(e).v.t = "obj"
        /\ GetProp(JsonParse(e).v, KeyId).t = "str"
        /\ GetProp(JsonParse(e).v, KeyCategories).t = "arr"}

\* w is ResponseText(es): the text up to and including the first k
\* characters of the last entry
CutInLast(es, k) ==
    Take(ResponseText(es), Len(ResponseText(es)) - 2 - Len(es[Len(es)]) + k)

\* every cut between the [ and the ] of the last entry's array, with the
\* uncut response, the id of the last entry and the ids of the earlier ones
CutCases ==
    UNION {{[cut |-> CutInLast(es, k), whole |-> ResponseText(es),
             id |-> GetProp(JsonParse(es[Len(es)]).v, KeyId).s,
             earlier |-> {GetProp(JsonParse(es[j]).v, KeyId).s :
                            j \in {x \in 1..(Len(es) - 1) : es[x] \in ArrayEntries}}] :
              k \in IndexFrom(es[Len(es)], "[", 1)..(Len(es[Len(es)]) - 2)} :
           es \in {x \in EntrySeqs \cup LongSeqs : Len(x) > 0 /\ x[Len(x)] \in ArrayEntries}}

\* C28: when the response is cut off inside the category array of its last
\* item, every other item of the batch has the outcome it has for the uncut
\* response, and the cut-off item (unless an earlier entry answers it) has
\* the default category.
C28_ScenarioB ==
    parsePc = "returned" =>
        \A c \in CutCases :
            c.cut = text =>
                \A i \in 1..Len(repos) :
                    IF repos[i] # c.id
                    THEN MapGet(resultMap, JStr(repos[i])) =
                            MapGet(ParseBatchClassifierResponse(c.whole, repos, categories,
                                                                maxPerItem).map,
                                   JStr(repos[i]))
                    ELSE c.id \notin c.earlier =>
                            MapGet(resultMap, JStr(repos[i])) = <<DefaultCategory(categories)>>

ObjectCuts ==
    UNION {{CutInLast(es, k) : k \in 1..(Len(es[Len(es)]) - 1)} :
           es \in {x \in EntrySeqs \cup LongSeqs : Len(x) > 0 /\ x[Len(x)] \in ArrayEntries}}

\* every { and [ of s has its closer
Balanced(s) ==
    /\ CountChar(s, "{") = CountChar(s, "}")
    /\ CountChar(s, "[") = CountChar(s, "]")

\* C33: for a response cut off inside its last result object the repaired
\* text closes every object and array once and the structured parse of it
\* succeeds.
C33_RepairYieldsWellFormed ==
    (parsePc = "returned" /\ text \in ObjectCuts) =>
        /\ Balanced(RepairTruncated(Trim(text)))
        /\ JsonParse(RepairTruncated(Trim(text))).ok
        /\ parsePath = "repaired"

\* the id-then-categories fragments of s from position from on, in the order
\* of the text
RECURSIVE Fragments(_, _)
Fragments(s, from) ==
    IF {p \in from..Len(s) : PatternAt(s, p).ok} = {} THEN <<>>
    ELSE <<PatternAt(s, LastOf({0 - p : p \in {x \in from..Len(s) : PatternAt(s, x).ok}}) * (0 - 1))>>
         \o Fragments(s, PatternAt(s, LastOf({0 - p : p \in {x \in from..Len(s) : PatternAt(s, x).ok}}) * (0 - 1)).end + 1)

\* the names of a fragment that are in the category set
ValidOfFragment(f) == SelectSeq(UnquoteAll(SplitComma(f.body)), InClosedSet)

\* the fragments that name a category of the set and are the first of
\* their id to do so
FirstValidFragments(fs) ==
    {i \in 1..Len(fs) :
        /\ Len(ValidOfFragment(fs[i])) > 0
        /\ \A j \in 1..(i - 1) : fs[j].id = fs[i].id => Len(ValidOfFragment(fs[j])) = 0}

FragmentsWin(fs) ==
    \A i \in FirstValidFragments(fs) :
        /\ MapHas(resultMap, JStr(fs[i].id))
        /\ MapGet(resultMap, JStr(fs[i].id)) = FirstN(ValidOfFragment(fs[i]), maxPerItem)

Broken(txt) == ~JsonParse(RepairTruncated(Trim(txt))).ok

C35_OnlyTargetIds ==
    parsePc = "returned" =>
        {resultMap[j].k : j \in 1..Len(resultMap)} = {JStr(repos[i]) : i \in 1..Len(repos)}

----------------------------------------------------------------------------
(* runWithConcurrency(items, processor, concurrency).  The processor is    *)
(* the caller's: on the items of `failing` the promise it returns rejects, *)
(* on the others it resolves with Res(item).  What runs between two awaits *)
(* is one step.                                                            *)

MaxItems == 3            \* items.length is at most this
MaxConcurrency == 3      \* concurrency is at most this

Hole == <<"hole">>                 \* a slot of new Array(n) never written
Res(item) == <<"result", item>>    \* what processor(item) resolves with
Item(i) == 100 + i                 \* the i-th item of the input

NumWorkers == Min(concurrency, Len(items))

\* the indexes (1-based) whose processor call has not settled yet
InFlight == {workers[w].index + 1 : w \in {x \in 1..Len(workers) : workers[x].st = "awaiting"}}

\* results[currentIndex] = ...: the slot is picked by the shared cursor
\* after the await, not by the index the worker claimed
WriteSlotAtCursor(w) ==
    [results EXCEPT ![Min(currentIndex + 1, Len(items))] = Res(items[workers[w].index + 1])]

\* results[index] = await processor(items[index])
WriteSlot(w) ==
    [results EXCEPT ![workers[w].index + 1] = Res(items[workers[w].index + 1])]

RunInit ==
    /\ \E n \in 0..MaxItems : items = [i \in 1..n |-> Item(i)]
    /\ concurrency \in 1..MaxConcurrency
    /\ failing \in SUBSET {items[i] : i \in 1..Len(items)}
    /\ results = <<>>
    /\ currentIndex = 0
    /\ workers = <<>>
    /\ invoked = [i \in 1..Len(items) |-> 0]
    /\ runPc = "init"
    /\ returned = <<>>
    /\ settled = <<>>

\* the synchronous part of the call: the array, the cursor, and
\* Math.min(concurrency, items.length) workers, each of which runs up to its
\* first await: it claims the next index and calls the processor on it
RunStart ==
    /\ runPc = "init"
    /\ results' = [i \in 1..Len(items) |-> Hole]
    /\ workers' = [w \in 1..NumWorkers |-> [st |-> "awaiting", index |-> w - 1]]
    /\ currentIndex' = NumWorkers
    /\ invoked' = [i \in 1..Len(items) |-> IF i <= NumWorkers THEN 1 ELSE 0]
    /\ runPc' = "pending"
    /\ UNCHANGED <<items, concurrency, failing, returned, settled>>
    /\ UNCHANGED <<parseVars, retryVars, orchVars, cmdVars>>

\* the processor's promise of worker w resolves: the worker stores the
\* result and goes round its while loop
ProcessorResolves(w) ==
    /\ runPc # "init"
    /\ workers[w].st = "awaiting"
    /\ items[workers[w].index + 1] \notin failing
    /\ results' = WriteSlot(w)
    /\ settled' = Append(settled, workers[w].index + 1)
    /\ IF currentIndex < Len(items)
       THEN /\ workers' = [workers EXCEPT ![w].index = currentIndex]
            /\ currentIndex' = currentIndex + 1
            /\ invoked' = [invoked EXCEPT ![currentIndex + 1] = @ + 1]
       ELSE /\ workers' = [workers EXCEPT ![w].st = "done"]
            /\ UNCHANGED <<currentIndex, invoked>>
    /\ UNCHANGED <<items, concurrency, failing, runPc, returned>>
    /\ UNCHANGED <<parseVars, retryVars, orchVars, cmdVars>>

\* the processor's promise of worker w rejects: the await throws inside
\* worker(), whose promise rejects; the worker claims nothing more
ProcessorRejects(w) ==
    /\ runPc # "init"
    /\ workers[w].st = "awaiting"
    /\ items[workers[w].index + 1] \in failing
    /\ workers' = [workers EXCEPT ![w].st = "failed"]
    /\ settled' = Append(settled, workers[w].index + 1)
    /\ UNCHANGED <<items, concurrency, failing, results, currentIndex, invoked, runPc, returned>>
    /\ UNCHANGED <<parseVars, retryVars, orchVars, cmdVars>>

\* await Promise.all(workers) is fulfilled: return results
RunReturn ==
    /\ runPc = "pending"
    /\ \A w \in 1..Len(workers) : workers[w].st = "done"
    /\ runPc' = "resolved"
    /\ returned' = results
    /\ UNCHANGED <<items, concurrency, failing, results, currentIndex, workers, invoked, settled>>
    /\ UNCHANGED <<parseVars, retryVars, orchVars, cmdVars>>

\* Promise.all(workers) rejects as soon as one worker has rejected
RunThrow ==
    /\ runPc = "pending"
    /\ \E w \in 1..Len(workers) : workers[w].st = "failed"
    /\ runPc' = "rejected"
    /\ UNCHANGED <<items, concurrency, failing, results, currentIndex, workers, invoked, returned,
                   settled>>
    /\ UNCHANGED <<parseVars, retryVars, orchVars, cmdVars>>

RunNext ==
    \/ RunStart
    \/ \E w \in 1..Len(workers) : ProcessorResolves(w)
    \/ \E w \in 1..Len(workers) : ProcessorRejects(w)
    \/ RunReturn
    \/ RunThrow

InitRun == ParseIdle /\ RunInit /\ RetryIdle /\ OrchIdle /\ CmdIdle

SpecRun == InitRun /\ [][RunNext]_vars

----------------------------------------------------------------------------
(* retryWithBackoff(fn, {maxRetries, initialDelayMs, maxDelayMs}).  fn     *)
(* fails on its first `failures` calls; what call c throws carries c.      *)

MaxRetriesBound == 3     \* maxRetries is at most this

\* for (...; attempt < maxRetries; ...): one attempt too few
LoopGoesOnShort(a, mr) == a < mr

\* for (let attempt = 0; attempt <= maxRetries; attempt++)
LoopGoesOn(a, mr) == a <= mr

\* the delay without the cap
DelayMsUncapped(a, initial, maxDelay) == initial * 2^a

\* Math.min(initialDelayMs * Math.pow(2, attempt), maxDelayMs)
DelayMs(a, initial, maxDelay) == Min(initial * 2^a, maxDelay)

\* what call number c of fn may throw: an Error instance or any other value
Thrown(c) == {[from |-> c, isError |-> b, wrapped |-> FALSE] : b \in BOOLEAN}

\* error instanceof Error ? error : new Error(String(error))
AsError(e) == IF e.isError THEN e ELSE [from |-> e.from, isError |-> TRUE, wrapped |-> TRUE]

\* the first error is kept and later ones are dropped
CatchErrorKeepFirst(last, e) == IF last = NullError THEN AsError(e) ELSE last

\* lastError = ... in the catch block
CatchError(last, e) == AsError(e)

RetryInit ==
    /\ maxRetries \in 0..MaxRetriesBound
    /\ initialDelayMs \in {500, 1000}
    /\ maxDelayMs \in {1500, 5000}
    /\ failures \in 0..(maxRetries + 2)
    /\ attempt = 0
    /\ calls = 0
    /\ delays = <<>>
    /\ lastError = NullError
    /\ retryPc = "loop"

\* return await fn(): fn succeeds
FnSucceeds ==
    /\ retryPc = "loop"
    /\ LoopGoesOn(attempt, maxRetries)
    /\ calls + 1 > failures
    /\ calls' = calls + 1
    /\ retryPc' = "returned"
    /\ UNCHANGED <<maxRetries, initialDelayMs, maxDelayMs, failures, attempt, delays, lastError>>
    /\ UNCHANGED <<parseVars, runVars, orchVars, cmdVars>>

\* fn fails: the catch block keeps the error and, when attempts remain,
\* starts the delay; otherwise the loop goes to its next round at once
FnFails ==
    /\ retryPc = "loop"
    /\ LoopGoesOn(attempt, maxRetries)
    /\ calls + 1 <= failures
    /\ calls' = calls + 1
    /\ \E e \in Thrown(calls + 1) : lastError' = CatchError(lastError, e)
    /\ IF attempt < maxRetries
       THEN retryPc' = "delay" /\ UNCHANGED attempt
       ELSE attempt' = attempt + 1 /\ UNCHANGED retryPc
    /\ UNCHANGED <<maxRetries, initialDelayMs, maxDelayMs, failures, delays>>
    /\ UNCHANGED <<parseVars, runVars, orchVars, cmdVars>>

\* await delay(delayMs) is over: attempt++
DelayElapses ==
    /\ retryPc = "delay"
    /\ delays' = Append(delays, DelayMs(attempt, initialDelayMs, maxDelayMs))
    /\ attempt' = attempt + 1
    /\ retryPc' = "loop"
    /\ UNCHANGED <<maxRetries, initialDelayMs, maxDelayMs, failures, calls, lastError>>
    /\ UNCHANGED <<parseVars, runVars, orchVars, cmdVars>>

\* the loop is over: throw lastError
RetryThrows ==
    /\ retryPc = "loop"
    /\ ~LoopGoesOn(attempt, maxRetries)
    /\ retryPc' = "raised"
    /\ UNCHANGED <<maxRetries, initialDelayMs, maxDelayMs, failures, attempt, calls, delays, lastError>>
    /\ UNCHANGED <<parseVars, runVars, orchVars, cmdVars>>

RetryNext == FnSucceeds \/ FnFails \/ DelayElapses \/ RetryThrows

InitRetry == ParseIdle /\ RunIdle /\ RetryInit /\ OrchIdle /\ CmdIdle

SpecRetry == InitRetry /\ [][RetryNext]_vars

----------------------------------------------------------------------------
(* classifyAndAddRepos of the commands classify and run.  Both have the    *)
(* same batch loop; they differ in the add phase: classify runs the        *)
(* processor through runWithConcurrency with a ceiling of 5 and wraps the  *)
(* assignment in retryWithBackoff (3 retries from 500 ms), run adds the    *)
(* repos of a batch one after another, each assignment attempted once,     *)
(* and raises its counters as it goes.  A repo is its index in repos.      *)

MaxOrchItems == 3      \* repos.length is at most this
MaxBatchSize == 2      \* config.classifyBatchSize is at most this
MaxBatchRounds == 4    \* the batch loop is followed for at most this many rounds

\* parseIntEnv("CLASSIFY_BATCH_SIZE", 20) yields any integer
BatchSizes == -1..MaxBatchSize

Commands == {"classify", "run"}

\* the names with a list in createdLists; CatB has none
CreatedListNames == {CatA}

\* createdLists.get(name)?.id
ListId(name) == <<"L">> \o name

\* what results.get(repoId) may hold
OutcomeLists == {<<CatA>>, <<CatB>>, <<CatA, CatB>>}

KnownNames(names) == SelectSeq(names, LAMBDA c : c \in CreatedListNames)

\* an id for every name, with a list or without
ListIdsUnfiltered(names) == [j \in 1..Len(names) |-> ListId(names[j])]

\* categoryNames.map((name) => createdLists.get(name)?.id).filter((id) => !!id)
ListIds(names) == [j \in 1..Len(KnownNames(names)) |-> ListId(KnownNames(names)[j])]

\* { repoId, success: true, categories: categoryNames }, printed as
\* result.categories.slice(0, 2).join(", ")
ReportedCategories(names) == SubSeq(names, 1, Min(2, Len(names)))

\* Math.ceil(n / b) for b # 0
CeilDiv(n, b) == IF b > 0 THEN (n + b - 1) \div b ELSE 0 - (n \div (0 - b))

\* the loop runs one round too many
BeforeBatchOneMore(idx, k, n, b) == IF b = 0 THEN TRUE ELSE idx < CeilDiv(n, b) - k + 1

\* idx < totalBatches - k, with totalBatches = Math.ceil(repos.length / batchSize),
\* which is Infinity when batchSize is 0 (repos is not empty)
BeforeBatch(idx, k, n, b) == IF b = 0 THEN TRUE ELSE idx < CeilDiv(n, b) - k

\* repos.slice(batchStart, batchEnd)
BatchRepos(rs, idx, b) == SubSeq(rs, idx * b + 1, Min(idx * b + b, Len(rs)))

\* retryWithBackoff(..., { maxRetries: 3, initialDelayMs: 500 }) in classify, none in run
RetriesOf(cmd) == IF cmd = "classify" THEN 3 ELSE 0

\* the same delay before every retry
ItemDelayMsFlat(a) == 500

\* the delay before retry number a + 1 of an assignment
ItemDelayMs(a) == DelayMs(a, 500, 5000)

\* one failure for the whole batch
BatchFailuresOne(batch) == 1

\* failed += batchRepos.length
BatchFailures(batch) == Len(batch)

\* runWithConcurrency(batchRepos, ..., 5) in classify, a for loop in run
ApplyCeiling(cmd) == IF cmd = "classify" THEN 5 ELSE 1

NoResult == [done |-> FALSE, success |-> FALSE, error |-> ""]

\* a failure that is recorded as a success
FailureAsSuccess(msg) == [done |-> TRUE, success |-> TRUE, error |-> msg]

Failure(msg) == [done |-> TRUE, success |-> FALSE, error |-> msg]
Succeeded == [done |-> TRUE, success |-> TRUE, error |-> ""]

NoMatchingCategory == "No matching category"
ApiError == "GitHub API request failed"
ClassificationFailed == "Classification failed"

\* the error text of a failed entry of addResults: run keeps none
ErrorText(cmd, msg) == IF cmd = "classify" THEN msg ELSE ""

\* failed++ / success++ inside the add loop: run only
CountInLoop(cmd) == IF cmd = "run" THEN 1 ELSE 0

\* the repos of the batch being processed
Batch == slices[Len(slices)]
BatchSet == {Batch[j] : j \in 1..Len(Batch)}
Applying == {i \in BatchSet : itemSt[i] \in {"calling", "delay"}}

\* the result lines of a batch, in the order of the batch
RECURSIVE ReportLines(_, _)
ReportLines(batch, res) ==
    IF batch = <<>> THEN <<>>
    ELSE <<[id |-> Head(batch), ok |-> res[Head(batch)].success,
            reason |-> res[Head(batch)].error]>> \o ReportLines(Tail(batch), res)

NumSucceeded(res) == Cardinality({i \in BatchSet : res[i].success})

\* what the backend can answer to the POST of fetchRepositoryReadme
BackendFailures ==
    {"fetch rejects", "response not ok", "body is not JSON", "data.errors", "no repository",
     "no readme object"}
BackendReplies == BackendFailures \cup {"readme text"}

\* the replies on which the code inside the try throws
ThrowsInTry == {"fetch rejects", "response not ok", "body is not JSON"}

FetchRaised == [raised |-> TRUE, value |-> "raised"]
FetchReturned(v) == [raised |-> FALSE, value |-> v]

\* the catch block rethrows instead of returning null
FetchRepositoryReadmeRethrow(args, reply) ==
    IF args.token = "" THEN FetchRaised
    ELSE IF args.owner = "" \/ args.name = "" THEN FetchRaised
    ELSE IF reply \in ThrowsInTry THEN FetchRaised
    ELSE IF reply = "readme text" THEN FetchReturned("text")
    ELSE FetchReturned("null")

\* fetchRepositoryReadme(token, owner, name): the two guards stand before the
\* try; whatever is thrown inside the try is caught and null is returned
FetchRepositoryReadme(args, reply) ==
    IF args.token = "" THEN FetchRaised
    ELSE IF args.owner = "" \/ args.name = "" THEN FetchRaised
    ELSE IF reply \in ThrowsInTry THEN FetchReturned("null")
    ELSE IF reply = "data.errors" THEN FetchReturned("null")
    ELSE IF reply = "no repository" THEN FetchReturned("null")
    ELSE IF reply = "no readme object" THEN FetchReturned("null")
    ELSE FetchReturned("text")

\* config.githubToken is checked by the configuration loader, owner.login and
\* name come from the starred-repositories listing
ValidArgs == [token |-> "t", owner |-> "o", name |-> "n"]

\* what every field is before the first batch
OrchStart ==
    /\ success = 0 /\ failed = 0 /\ batchIdx = 0 /\ orchPc = "loop"
    /\ readme = [i \in 1..Len(orchRepos) |-> "none"]
    /\ outcome = [i \in 1..Len(orchRepos) |-> <<>>]
    /\ cursor = 0
    /\ itemSt = [i \in 1..Len(orchRepos) |-> "idle"]
    /\ failsFirst = [i \in 1..Len(orchRepos) |-> 0]
    /\ attempts = [i \in 1..Len(orchRepos) |-> 0]
    /\ addCalls = [i \in 1..Len(orchRepos) |-> 0]
    /\ itemDelays = [i \in 1..Len(orchRepos) |-> <<>>]
    /\ addResults = [i \in 1..Len(orchRepos) |-> NoResult]
    /\ counted = [i \in 1..Len(orchRepos) |-> 0]
    /\ reported = <<>> /\ slices = <<>> /\ oracleLog = <<>> /\ paced = {}

OrchInit ==
    /\ command \in Commands
    /\ batchSize \in BatchSizes
    /\ orchRepos \in {[i \in 1..n |-> i] : n \in 1..MaxOrchItems}
    /\ fetchArgs = [i \in 1..Len(orchRepos) |-> ValidArgs]
    /\ OrchStart

\* the loop goes on: batchRepos is sliced and the README fetch of every repo
\* of the batch is started (Promise.all over batchRepos.map)
StartBatch ==
    /\ orchPc = "loop"
    /\ BeforeBatch(batchIdx, 0, Len(orchRepos), batchSize)
    /\ batchIdx < MaxBatchRounds
    /\ slices' = Append(slices, BatchRepos(orchRepos, batchIdx, batchSize))
    /\ readme' = [i \in 1..Len(orchRepos) |->
                     IF \E j \in 1..Len(BatchRepos(orchRepos, batchIdx, batchSize)) :
                            BatchRepos(orchRepos, batchIdx, batchSize)[j] = i
                     THEN "pending" ELSE readme[i]]
    /\ orchPc' = "readme"
    /\ UNCHANGED <<command, batchSize, orchRepos, fetchArgs, success, failed, batchIdx, outcome, cursor,
                   itemSt, failsFirst, attempts, addCalls, itemDelays, addResults, counted,
                   reported, oracleLog, paced>>
    /\ UNCHANGED <<parseVars, runVars, retryVars, cmdVars>>

\* fetchRepositoryReadme of one repo settles: it returns a text or null, or it
\* throws, which rejects the Promise.all and with it classifyAndAddRepos (the
\* command's catch ends the process)
ReadmeReturns(i) ==
    /\ orchPc = "readme"
    /\ readme[i] = "pending"
    /\ \E reply \in BackendReplies :
           /\ readme' = [readme EXCEPT ![i] = FetchRepositoryReadme(fetchArgs[i], reply).value]
           /\ orchPc' = IF FetchRepositoryReadme(fetchArgs[i], reply).raised
                        THEN "aborted" ELSE orchPc
    /\ UNCHANGED <<command, batchSize, orchRepos, fetchArgs, success, failed, batchIdx, outcome,
                   cursor, itemSt, failsFirst, attempts, addCalls, itemDelays, addResults,
                   counted, reported, slices, oracleLog, paced>>
    /\ UNCHANGED <<parseVars, runVars, retryVars, cmdVars>>

\* all READMEs are in: batchRepoInfos is handed to
\* gemini.classifyRepositoriesBatch
CallOracle ==
    /\ orchPc = "readme"
    /\ \A i \in BatchSet : readme[i] \in {"null", "text"}
    /\ orchPc' = "classify"
    /\ readme' = [i \in 1..Len(orchRepos) |-> IF i \in BatchSet THEN "done" ELSE readme[i]]
    /\ UNCHANGED <<command, batchSize, orchRepos, fetchArgs, success, failed, batchIdx, outcome,
                   cursor, itemSt, failsFirst, attempts, addCalls, itemDelays, addResults,
                   counted, reported, slices, oracleLog, paced>>
    /\ UNCHANGED <<parseVars, runVars, retryVars, cmdVars>>

\* the call returns the map of the batch; the add phase begins
OracleSucceeds ==
    /\ orchPc = "classify"
    /\ \E f \in [BatchSet -> OutcomeLists] :
           outcome' = [i \in 1..Len(orchRepos) |-> IF i \in BatchSet THEN f[i] ELSE outcome[i]]
    /\ oracleLog' = Append(oracleLog, TRUE)
    /\ cursor' = 0
    /\ orchPc' = "apply"
    /\ UNCHANGED <<command, batchSize, orchRepos, fetchArgs, success, failed, batchIdx, readme, itemSt,
                   failsFirst, attempts, addCalls, itemDelays, addResults, counted, reported,
                   slices, paced>>
    /\ UNCHANGED <<parseVars, runVars, retryVars, cmdVars>>

\* the call throws: failed += batchRepos.length; continue
OracleFails ==
    /\ orchPc = "classify"
    /\ oracleLog' = Append(oracleLog, FALSE)
    /\ failed' = failed + BatchFailures(Batch)
    /\ counted' = [i \in 1..Len(orchRepos) |-> IF i \in BatchSet THEN counted[i] + 1 ELSE counted[i]]
    /\ itemSt' = [i \in 1..Len(orchRepos) |-> IF i \in BatchSet THEN "skipped" ELSE itemSt[i]]
    /\ reported' = Append(reported, [id |-> 0, ok |-> FALSE, reason |-> ClassificationFailed])
    /\ batchIdx' = batchIdx + 1
    /\ orchPc' = "loop"
    /\ UNCHANGED <<command, batchSize, orchRepos, fetchArgs, success, readme, outcome, cursor, failsFirst,
                   attempts, addCalls, itemDelays, addResults, slices, paced>>
    /\ UNCHANGED <<parseVars, runVars, retryVars, cmdVars>>

\* the next repo of the batch is claimed and its processor runs up to its
\* first await: without a list id it is a failure at once, otherwise the
\* first attempt of the assignment is started
ClaimRepo ==
    /\ orchPc = "apply"
    /\ cursor < Len(Batch)
    /\ Cardinality(Applying) < ApplyCeiling(command)
    /\ cursor' = cursor + 1
    /\ IF ListIds(outcome[Batch[cursor + 1]]) = <<>>
       THEN /\ itemSt' = [itemSt EXCEPT ![Batch[cursor + 1]] = "unmapped"]
            /\ addResults' = [addResults EXCEPT ![Batch[cursor + 1]] =
                                  Failure(ErrorText(command, NoMatchingCategory))]
            /\ failed' = failed + CountInLoop(command)
            /\ counted' = [counted EXCEPT ![Batch[cursor + 1]] = @ + CountInLoop(command)]
            /\ UNCHANGED <<failsFirst, attempts>>
       ELSE /\ itemSt' = [itemSt EXCEPT ![Batch[cursor + 1]] = "calling"]
            /\ \E k \in 0..(RetriesOf("classify") + 1) :
                   failsFirst' = [failsFirst EXCEPT ![Batch[cursor + 1]] = k]
            /\ attempts' = [attempts EXCEPT ![Batch[cursor + 1]] = 1]
            /\ UNCHANGED <<addResults, failed, counted>>
    /\ UNCHANGED <<command, batchSize, orchRepos, fetchArgs, success, batchIdx, orchPc, readme, outcome,
                   addCalls, itemDelays, reported, slices, oracleLog, paced>>
    /\ UNCHANGED <<parseVars, runVars, retryVars, cmdVars>>

\* getRepositoryNodeId and addRepoToGitHubLists both return
AttemptSucceeds(i) ==
    /\ orchPc = "apply"
    /\ itemSt[i] = "calling"
    /\ attempts[i] > failsFirst[i]
    /\ addCalls' = [addCalls EXCEPT ![i] = @ + 1]
    /\ itemSt' = [itemSt EXCEPT ![i] = "ok"]
    /\ addResults' = [addResults EXCEPT ![i] = Succeeded]
    /\ success' = success + CountInLoop(command)
    /\ counted' = [counted EXCEPT ![i] = @ + CountInLoop(command)]
    /\ UNCHANGED <<command, batchSize, orchRepos, fetchArgs, failed, batchIdx, orchPc, readme, outcome,
                   cursor, failsFirst, attempts, itemDelays, reported, slices, oracleLog, paced>>
    /\ UNCHANGED <<parseVars, runVars, retryVars, cmdVars>>

\* the attempt throws, in getRepositoryNodeId (no mutation is sent) or in
\* addRepoToGitHubLists; with retries left the backoff delay starts,
\* otherwise the catch block of the processor makes it a failure
AttemptFails(i) ==
    /\ orchPc = "apply"
    /\ itemSt[i] = "calling"
    /\ attempts[i] <= failsFirst[i]
    /\ \E sent \in {0, 1} : addCalls' = [addCalls EXCEPT ![i] = @ + sent]
    /\ IF attempts[i] - 1 < RetriesOf(command)
       THEN /\ itemSt' = [itemSt EXCEPT ![i] = "delay"]
            /\ UNCHANGED <<addResults, failed, counted>>
       ELSE /\ itemSt' = [itemSt EXCEPT ![i] = "failed"]
            /\ addResults' = [addResults EXCEPT ![i] = Failure(ErrorText(command, ApiError))]
            /\ failed' = failed + CountInLoop(command)
            /\ counted' = [counted EXCEPT ![i] = @ + CountInLoop(command)]
    /\ UNCHANGED <<command, batchSize, orchRepos, fetchArgs, success, batchIdx, orchPc, readme, outcome,
                   cursor, failsFirst, attempts, itemDelays, reported, slices, oracleLog, paced>>
    /\ UNCHANGED <<parseVars, runVars, retryVars, cmdVars>>

\* the backoff delay of a repo is over: the next attempt starts
RetryDelayElapses(i) ==
    /\ orchPc = "apply"
    /\ itemSt[i] = "delay"
    /\ itemDelays' = [itemDelays EXCEPT ![i] = Append(@, ItemDelayMs(attempts[i] - 1))]
    /\ attempts' = [attempts EXCEPT ![i] = @ + 1]
    /\ itemSt' = [itemSt EXCEPT ![i] = "calling"]
    /\ UNCHANGED <<command, batchSize, orchRepos, fetchArgs, success, failed, batchIdx, orchPc, readme,
                   outcome, cursor, failsFirst, addCalls, addResults, counted, reported,
                   slices, oracleLog, paced>>
    /\ UNCHANGED <<parseVars, runVars, retryVars, cmdVars>>

\* every repo of the batch is done: classify counts addResults, both print
\* the result lines; then, unless this was the last batch, the delay starts
FinishBatch ==
    /\ orchPc = "apply"
    /\ cursor = Len(Batch)
    /\ Applying = {}
    /\ IF command = "classify"
       THEN /\ success' = success + NumSucceeded(addResults)
            /\ failed' = failed + (Len(Batch) - NumSucceeded(addResults))
            /\ counted' = [i \in 1..Len(orchRepos) |->
                              IF i \in BatchSet THEN counted[i] + 1 ELSE counted[i]]
       ELSE UNCHANGED <<success, failed, counted>>
    /\ reported' = reported \o ReportLines(Batch, addResults)
    /\ IF BeforeBatch(batchIdx, 1, Len(orchRepos), batchSize)
       THEN orchPc' = "pace" /\ UNCHANGED batchIdx
       ELSE orchPc' = "loop" /\ batchIdx' = batchIdx + 1
    /\ UNCHANGED <<command, batchSize, orchRepos, fetchArgs, readme, outcome, cursor, itemSt, failsFirst,
                   attempts, addCalls, itemDelays, addResults, slices, oracleLog, paced>>
    /\ UNCHANGED <<parseVars, runVars, retryVars, cmdVars>>

\* await delay(config.batchDelay) is over
PaceElapses ==
    /\ orchPc = "pace"
    /\ paced' = paced \cup {batchIdx}
    /\ batchIdx' = batchIdx + 1
    /\ orchPc' = "loop"
    /\ UNCHANGED <<command, batchSize, orchRepos, fetchArgs, success, failed, readme, outcome, cursor,
                   itemSt, failsFirst, attempts, addCalls, itemDelays, addResults, counted,
                   reported, slices, oracleLog>>
    /\ UNCHANGED <<parseVars, runVars, retryVars, cmdVars>>

\* the loop is over: the final tally is printed
PrintTally ==
    /\ orchPc = "loop"
    /\ ~BeforeBatch(batchIdx, 0, Len(orchRepos), batchSize)
    /\ orchPc' = "done"
    /\ UNCHANGED <<command, batchSize, orchRepos, fetchArgs, success, failed, batchIdx, readme, outcome,
                   cursor, itemSt, failsFirst, attempts, addCalls, itemDelays, addResults,
                   counted, reported, slices, oracleLog, paced>>
    /\ UNCHANGED <<parseVars, runVars, retryVars, cmdVars>>

OrchNext ==
    \/ StartBatch
    \/ \E i \in 1..Len(orchRepos) : ReadmeReturns(i)
    \/ CallOracle
    \/ OracleSucceeds
    \/ OracleFails
    \/ ClaimRepo
    \/ \E i \in 1..Len(orchRepos) : AttemptSucceeds(i)
    \/ \E i \in 1..Len(orchRepos) : AttemptFails(i)
    \/ \E i \in 1..Len(orchRepos) : RetryDelayElapses(i)
    \/ FinishBatch
    \/ PaceElapses
    \/ PrintTally

InitOrch == ParseIdle /\ RunIdle /\ RetryIdle /\ OrchInit /\ CmdIdle

SpecOrch == InitOrch /\ [][OrchNext]_vars

\* every await of the loop returns or fails in the end
SpecOrchFair == InitOrch /\ [][OrchNext]_vars /\ WF_vars(OrchNext)

\* ---- the enrichment step of one batch, for any arguments ----
MaxEnrichItems == 6
DefaultBatchSize == 20

\* the first batch of a run at the default batch size; the token and the
\* owner and name of the first repo may be empty strings
EnrichInit ==
    /\ command \in Commands
    /\ batchSize = DefaultBatchSize
    /\ orchRepos \in {[i \in 1..n |-> i] : n \in 1..MaxEnrichItems}
    /\ \E t \in {"", "t"}, o \in {"", "o"}, nm \in {"", "n"} :
           fetchArgs = [i \in 1..Len(orchRepos) |->
                           [token |-> t,
                            owner |-> IF i = 1 THEN o ELSE "o",
                            name |-> IF i = 1 THEN nm ELSE "n"]]
    /\ OrchStart

EnrichNext ==
    \/ StartBatch
    \/ \E i \in 1..Len(orchRepos) : ReadmeReturns(i)
    \/ CallOracle

InitEnrich == ParseIdle /\ RunIdle /\ RetryIdle /\ EnrichInit /\ CmdIdle

SpecEnrich == InitEnrich /\ [][EnrichNext]_vars

----------------------------------------------------------------------------
(* The actions of the commands run and classify, step by step.  The        *)
(* backend is the set of lists and their members; log records every oracle *)
(* call and every backend mutation the action makes.  classifyAndAddRepos  *)
(* is followed here for one batch.                                         *)

MaxStars == 2

\* what gemini.planCategories can return, and what a stored plan can hold
PlannedSets == {<<>>, <<CatA>>, <<CatA, CatB>>}

\* the order in which the backend returns lists and stars
ListOrder == <<CatA, CatB>>
InListOrder(S) == SelectSeq(ListOrder, LAMBDA n : n \in S)
InStarOrder(S) == SelectSeq([i \in 1..MaxStars |-> i], LAMBDA r : r \in S)

\* addedRepoNames, and the filter !addedRepoNames.has(...)
\* what fetchGitHubLists returns of the members: items(first: 100) of a list
FetchedMembersAll == members

FetchedMembers == members \ beyondPage

AddedRepoNames == {m[2] : m \in FetchedMembers}
NotAdded(rs) == SelectSeq(rs, LAMBDA r : r \notin AddedRepoNames)

Event(op, ok) == [op |-> op, ok |-> ok]

\* the entries parseBatchClassifierResponse can give an item
OutcomesOf(cats) ==
    IF cats = <<>> THEN {<<LangEtc>>} ELSE {<<cats[i]>> : i \in 1..Len(cats)}

\* a run that goes on after the dry-run check whatever the option
DryRunStopsNever(c) == FALSE

\* if (options.dryRun) { displayDryRunResults(...); return; }
DryRunStops(c) == c.dryRun

CmdInit ==
    /\ cli \in {[name |-> "run", onlyNew |-> o, dryRun |-> d, useExisting |-> FALSE] :
                    o \in BOOLEAN, d \in BOOLEAN}
              \cup {[name |-> "classify", onlyNew |-> o, dryRun |-> FALSE, useExisting |-> u] :
                       o \in BOOLEAN, u \in BOOLEAN}
    /\ stars \in {1..n : n \in 0..MaxStars}
    /\ ghLists \in SUBSET {CatA, CatB}
    /\ members \in {m \in SUBSET {<<CatA, 1>>, <<CatB, 2>>} :
                       \A x \in m : x[1] \in ghLists /\ x[2] \in stars}
    /\ beyondPage \in SUBSET members
    /\ planFile \in IF cli.name = "run" THEN {NoPlan}
                    ELSE {NoPlan} \cup {[exists |-> TRUE, categories |-> c] : c \in PlannedSets}
    /\ cmdPc = "start" /\ cmdRepos = <<>> /\ cmdCategories = <<>> /\ createdLists = {}
    /\ pending = <<>> /\ cmdOutcome = <<>> /\ log = <<>> /\ shown = FALSE
    /\ deleteTotal = 0 /\ deletedCount = 0 /\ deleteLog = <<>> /\ progress = <<>>

\* run, step 1: fetchStarredRepos throws on a status other than 200; no
\* stars end the command
RunFetchStarred ==
    /\ cli.name = "run" /\ cmdPc = "start"
    /\ \E ok \in BOOLEAN :
           IF ~ok THEN cmdPc' = "exit1" /\ UNCHANGED cmdRepos
           ELSE /\ cmdRepos' = InStarOrder(stars)
                /\ cmdPc' = IF stars = {} THEN "returned" ELSE "filter"
    /\ UNCHANGED <<cli, stars, ghLists, members, planFile, cmdCategories, createdLists, pending,
                   cmdOutcome, log, shown>>
    /\ UNCHANGED <<beyondPage, deleteTotal, deletedCount, deleteLog, progress>>
    /\ UNCHANGED <<parseVars, runVars, retryVars, orchVars>>

\* run, step 2: with --only-new the existing lists become the categories
\* and the mapping, and the repos already in a list are left out
RunFilterNew ==
    /\ cli.name = "run" /\ cmdPc = "filter"
    /\ \E ok \in BOOLEAN :
           IF ~cli.onlyNew
           THEN cmdPc' = "plan" /\ UNCHANGED <<cmdRepos, cmdCategories, createdLists>>
           ELSE IF ~ok
           THEN cmdPc' = "exit1" /\ UNCHANGED <<cmdRepos, cmdCategories, createdLists>>
           ELSE /\ cmdRepos' = NotAdded(cmdRepos)
                /\ createdLists' = ghLists
                /\ cmdCategories' = InListOrder(ghLists)
                /\ cmdPc' = IF NotAdded(cmdRepos) = <<>> \/ ghLists = {}
                            THEN "returned" ELSE "dryrun"
    /\ UNCHANGED <<cli, stars, ghLists, members, planFile, pending, cmdOutcome, log, shown>>
    /\ UNCHANGED <<beyondPage, deleteTotal, deletedCount, deleteLog, progress>>
    /\ UNCHANGED <<parseVars, runVars, retryVars, orchVars>>

\* run, step 3: planCategories asks the oracle for the category set
RunPlanCategories ==
    /\ cli.name = "run" /\ cmdPc = "plan"
    /\ \E ok \in BOOLEAN, c \in PlannedSets :
           /\ log' = Append(log, Event("plan", ok))
           /\ IF ok THEN cmdCategories' = c /\ cmdPc' = "dryrun"
              ELSE cmdPc' = "exit1" /\ UNCHANGED cmdCategories
    /\ UNCHANGED <<cli, stars, ghLists, members, planFile, cmdRepos, createdLists, pending,
                   cmdOutcome, shown>>
    /\ UNCHANGED <<beyondPage, deleteTotal, deletedCount, deleteLog, progress>>
    /\ UNCHANGED <<parseVars, runVars, retryVars, orchVars>>

\* run, step 4: the dry run ends here
RunDryRunCheck ==
    /\ cli.name = "run" /\ cmdPc = "dryrun"
    /\ IF DryRunStops(cli) THEN shown' = TRUE /\ cmdPc' = "returned"
       ELSE /\ cmdPc' = IF cli.onlyNew THEN "create" ELSE "delete"
            /\ UNCHANGED shown
    /\ UNCHANGED <<cli, stars, ghLists, members, planFile, cmdRepos, cmdCategories, createdLists,
                   pending, cmdOutcome, log>>
    /\ UNCHANGED <<beyondPage, deleteTotal, deletedCount, deleteLog, progress>>
    /\ UNCHANGED <<parseVars, runVars, retryVars, orchVars>>

\* a run that skips the creation of the lists
AfterDeleteClassify(c) == "classify"

\* run, step 6 follows step 5
AfterDelete(c) == "create"

\* run, step 5: deleteExistingLists fetches the lists and asks before it
\* deletes; a refusal is process.exit(0)
RunDeleteExistingLists ==
    /\ cli.name = "run" /\ cmdPc = "delete"
    /\ \E ok \in BOOLEAN, shouldDelete \in BOOLEAN, refetched \in BOOLEAN :
           IF ~ok THEN cmdPc' = "exit1" /\ UNCHANGED <<pending, deleteTotal>>
           ELSE IF ghLists = {} THEN cmdPc' = AfterDelete(cli) /\ UNCHANGED <<pending, deleteTotal>>
           ELSE IF ~shouldDelete THEN cmdPc' = "exit0" /\ UNCHANGED <<pending, deleteTotal>>
           \* deleteAllGitHubLists fetches the lists again
           ELSE IF ~refetched THEN cmdPc' = "exit1" /\ UNCHANGED <<pending, deleteTotal>>
           ELSE /\ pending' = InListOrder(ghLists)
                /\ deleteTotal' = Len(InListOrder(ghLists))
                /\ cmdPc' = "deleting"
    /\ UNCHANGED <<cli, stars, ghLists, members, planFile, cmdRepos, cmdCategories, createdLists,
                   cmdOutcome, log, shown>>
    /\ UNCHANGED <<beyondPage, deletedCount, deleteLog, progress>>
    /\ UNCHANGED <<parseVars, runVars, retryVars, orchVars>>

\* a loop that ends at the first deletion that fails
RestAfterBreak(rest, ok) == IF ok THEN Tail(rest) ELSE <<>>

\* for (const list of lists.lists): the catch inside the loop lets it go on
RestAfter(rest, ok) == Tail(rest)

\* deleteAllGitHubLists: one deleteGitHubList, which may fail
RunDeleteList ==
    /\ cli.name = "run" /\ cmdPc = "deleting" /\ pending # <<>>
    /\ \E ok \in BOOLEAN :
           /\ log' = Append(log, Event("delete", ok))
           /\ deleteLog' = Append(deleteLog, [name |-> Head(pending), ok |-> ok])
           /\ ghLists' = IF ok THEN ghLists \ {Head(pending)} ELSE ghLists
           /\ members' = IF ok THEN {m \in members : m[1] # Head(pending)} ELSE members
           /\ beyondPage' = IF ok THEN {m \in beyondPage : m[1] # Head(pending)} ELSE beyondPage
           /\ deletedCount' = IF ok THEN deletedCount + 1 ELSE deletedCount
           /\ progress' = IF ok THEN Append(progress, <<deletedCount + 1, deleteTotal>>)
                          ELSE progress
           /\ pending' = RestAfter(pending, ok)
    /\ UNCHANGED <<cli, stars, planFile, cmdPc, cmdRepos, cmdCategories, createdLists, cmdOutcome,
                   shown, deleteTotal>>
    /\ UNCHANGED <<parseVars, runVars, retryVars, orchVars>>

RunDeleteDone ==
    /\ cli.name = "run" /\ cmdPc = "deleting" /\ pending = <<>>
    /\ cmdPc' = AfterDelete(cli)
    /\ UNCHANGED <<cli, stars, ghLists, members, planFile, cmdRepos, cmdCategories, createdLists,
                   pending, cmdOutcome, log, shown>>
    /\ UNCHANGED <<beyondPage, deleteTotal, deletedCount, deleteLog, progress>>
    /\ UNCHANGED <<parseVars, runVars, retryVars, orchVars>>

\* run, step 6: the existing lists are used with --only-new, else
\* createLists makes one list per category
RunCreateLists ==
    /\ cli.name = "run" /\ cmdPc = "create"
    /\ IF cli.onlyNew /\ createdLists # {}
       THEN cmdPc' = "classify" /\ UNCHANGED <<createdLists, pending>>
       ELSE createdLists' = {} /\ pending' = cmdCategories /\ cmdPc' = "creating"
    /\ UNCHANGED <<cli, stars, ghLists, members, planFile, cmdRepos, cmdCategories, cmdOutcome,
                   log, shown>>
    /\ UNCHANGED <<beyondPage, deleteTotal, deletedCount, deleteLog, progress>>
    /\ UNCHANGED <<parseVars, runVars, retryVars, orchVars>>

\* createLists: one createGitHubList, which may fail
RunCreateList ==
    /\ cli.name = "run" /\ cmdPc = "creating" /\ pending # <<>>
    /\ \E ok \in BOOLEAN :
           /\ log' = Append(log, Event("create", ok))
           /\ ghLists' = IF ok THEN ghLists \cup {Head(pending)} ELSE ghLists
           /\ createdLists' = IF ok THEN createdLists \cup {Head(pending)} ELSE createdLists
    /\ pending' = Tail(pending)
    /\ UNCHANGED <<cli, stars, members, planFile, cmdPc, cmdRepos, cmdCategories, cmdOutcome,
                   shown>>
    /\ UNCHANGED <<beyondPage, deleteTotal, deletedCount, deleteLog, progress>>
    /\ UNCHANGED <<parseVars, runVars, retryVars, orchVars>>

RunCreateDone ==
    /\ cli.name = "run" /\ cmdPc = "creating" /\ pending = <<>>
    /\ cmdPc' = "classify"
    /\ UNCHANGED <<cli, stars, ghLists, members, planFile, cmdRepos, cmdCategories, createdLists,
                   pending, cmdOutcome, log, shown>>
    /\ UNCHANGED <<beyondPage, deleteTotal, deletedCount, deleteLog, progress>>
    /\ UNCHANGED <<parseVars, runVars, retryVars, orchVars>>

\* classify, step 1: the existing lists are the mapping; none ends the command
ClassifyFetchLists ==
    /\ cli.name = "classify" /\ cmdPc = "start"
    /\ \E ok \in BOOLEAN :
           IF ~ok THEN cmdPc' = "exit1" /\ UNCHANGED createdLists
           ELSE IF ghLists = {} THEN cmdPc' = "returned" /\ UNCHANGED createdLists
           ELSE createdLists' = ghLists /\ cmdPc' = "categories"
    /\ UNCHANGED <<cli, stars, ghLists, members, planFile, cmdRepos, cmdCategories, pending,
                   cmdOutcome, log, shown>>
    /\ UNCHANGED <<beyondPage, deleteTotal, deletedCount, deleteLog, progress>>
    /\ UNCHANGED <<parseVars, runVars, retryVars, orchVars>>

\* classify, step 2: the categories are the lists or those of the plan file
ClassifyCategories ==
    /\ cli.name = "classify" /\ cmdPc = "categories"
    /\ IF cli.useExisting THEN cmdCategories' = InListOrder(ghLists) /\ cmdPc' = "stars"
       ELSE IF ~planFile.exists THEN cmdPc' = "returned" /\ UNCHANGED cmdCategories
       ELSE cmdCategories' = planFile.categories /\ cmdPc' = "stars"
    /\ UNCHANGED <<cli, stars, ghLists, members, planFile, cmdRepos, createdLists, pending,
                   cmdOutcome, log, shown>>
    /\ UNCHANGED <<beyondPage, deleteTotal, deletedCount, deleteLog, progress>>
    /\ UNCHANGED <<parseVars, runVars, retryVars, orchVars>>

\* classify, steps 3 and 4: the stars, without those in a list with --only-new
ClassifyFetchStarred ==
    /\ cli.name = "classify" /\ cmdPc = "stars"
    /\ \E ok \in BOOLEAN :
           IF ~ok THEN cmdPc' = "exit1" /\ UNCHANGED cmdRepos
           ELSE /\ cmdRepos' = IF cli.onlyNew THEN NotAdded(InStarOrder(stars))
                                ELSE InStarOrder(stars)
                /\ cmdPc' = IF cmdRepos' = <<>> THEN "returned" ELSE "classify"
    /\ UNCHANGED <<cli, stars, ghLists, members, planFile, cmdCategories, createdLists, pending,
                   cmdOutcome, log, shown>>
    /\ UNCHANGED <<beyondPage, deleteTotal, deletedCount, deleteLog, progress>>
    /\ UNCHANGED <<parseVars, runVars, retryVars, orchVars>>

\* classifyAndAddRepos: gemini.classifyRepositoriesBatch for the batch; a
\* failed call fails the batch
CmdClassifyBatch ==
    /\ cmdPc = "classify"
    /\ \E ok \in BOOLEAN, f \in [1..Len(cmdRepos) -> OutcomesOf(cmdCategories)] :
           /\ log' = Append(log, Event("oracle", ok))
           /\ IF ok THEN cmdOutcome' = f /\ pending' = cmdRepos /\ cmdPc' = "adding"
              ELSE cmdPc' = "returned" /\ UNCHANGED <<cmdOutcome, pending>>
    /\ UNCHANGED <<cli, stars, ghLists, members, planFile, cmdRepos, cmdCategories, createdLists,
                   shown>>
    /\ UNCHANGED <<beyondPage, deleteTotal, deletedCount, deleteLog, progress>>
    /\ UNCHANGED <<parseVars, runVars, retryVars, orchVars>>

\* the list names of the outcome of the repo at the head of pending that
\* createdLists maps
MappedNames ==
    {n \in createdLists :
        \E j \in 1..Len(cmdOutcome[Len(cmdRepos) - Len(pending) + 1]) :
            cmdOutcome[Len(cmdRepos) - Len(pending) + 1][j] = n}

\* classifyAndAddRepos: one repo is added to its lists, unless none of its
\* categories has a list
CmdAddRepo ==
    /\ cmdPc = "adding" /\ pending # <<>>
    /\ \E ok \in BOOLEAN :
           IF MappedNames = {} THEN UNCHANGED <<log, members>>
           ELSE /\ log' = Append(log, Event("add", ok))
                /\ members' = IF ok THEN members \cup {<<n, Head(pending)>> : n \in MappedNames}
                               ELSE members
    /\ pending' = Tail(pending)
    /\ UNCHANGED <<cli, stars, ghLists, planFile, cmdPc, cmdRepos, cmdCategories, createdLists,
                   cmdOutcome, shown>>
    /\ UNCHANGED <<beyondPage, deleteTotal, deletedCount, deleteLog, progress>>
    /\ UNCHANGED <<parseVars, runVars, retryVars, orchVars>>

CmdAddDone ==
    /\ cmdPc = "adding" /\ pending = <<>>
    /\ cmdPc' = "returned"
    /\ UNCHANGED <<cli, stars, ghLists, members, planFile, cmdRepos, cmdCategories, createdLists,
                   pending, cmdOutcome, log, shown>>
    /\ UNCHANGED <<beyondPage, deleteTotal, deletedCount, deleteLog, progress>>
    /\ UNCHANGED <<parseVars, runVars, retryVars, orchVars>>

CmdNext ==
    \/ RunFetchStarred
    \/ RunFilterNew
    \/ RunPlanCategories
    \/ RunDryRunCheck
    \/ RunDeleteExistingLists
    \/ RunDeleteList
    \/ RunDeleteDone
    \/ RunCreateLists
    \/ RunCreateList
    \/ RunCreateDone
    \/ ClassifyFetchLists
    \/ ClassifyCategories
    \/ ClassifyFetchStarred
    \/ CmdClassifyBatch
    \/ CmdAddRepo
    \/ CmdAddDone

InitCmd == ParseIdle /\ RunIdle /\ RetryIdle /\ OrchIdle /\ CmdInit

SpecCmd == InitCmd /\ [][CmdNext]_vars

----------------------------------------------------------------------------
(* Claims about runWithConcurrency, checked under SpecRun.                 *)

Started == runPc # "init"
Quiescent == Started /\ InFlight = {}
Completed == runPc \in {"resolved", "rejected"}
Indexes == 1..Len(items)

\* C5: the processor is invoked exactly once per item: no index is claimed
\* twice and, once no call is in flight any more, none was skipped.
C5_ExactlyOncePerItem ==
    /\ \A i \in Indexes : invoked[i] <= 1
    /\ Quiescent => \A i \in Indexes : invoked[i] = 1

\* C6: never more than `concurrency` calls in flight, min(C, N) workers,
\* and every slot populated when the call completes.
C6_CeilingAndPopulated ==
    /\ Cardinality(InFlight) <= concurrency
    /\ Started => Len(workers) = Min(concurrency, Len(items))
    /\ Completed => \A i \in Indexes : results[i] # Hole

\* C7: the returned array has length N and slot i holds the processor's
\* result for items[i], whatever the order in which the calls completed.
C7_IndexStable ==
    runPc = "resolved" =>
        /\ Len(returned) = Len(items)
        /\ \A i \in Indexes : returned[i] = Res(items[i])

\* three items, two workers, and the second call completed before the first
C7_Witness ==
    /\ runPc = "resolved" /\ Len(items) = 3 /\ concurrency = 2
    /\ settled = <<2, 3, 1>>

\* C8: the call resolves or rejects only after all N invocations settled.
C8_ReturnsAfterAllSettled ==
    Completed => /\ InFlight = {}
                 /\ \A i \in Indexes : invoked[i] = 1

\* C9: a failure of the processor on one item does not keep the processor
\* from being invoked on every other item.
C9_SiblingIsolation ==
    (Quiescent /\ failing # {}) => \A i \in Indexes : invoked[i] >= 1

----------------------------------------------------------------------------
(* Claims about retryWithBackoff, checked under SpecRetry.                 *)

AlwaysFails == failures > maxRetries

\* C10: an operation that always fails is invoked exactly maxRetries + 1
\* times, and then retryWithBackoff raises.
C10_RetryBound ==
    AlwaysFails =>
        /\ calls <= maxRetries + 1
        /\ retryPc # "returned"
        /\ retryPc = "raised" => calls = maxRetries + 1
        /\ ~ENABLED RetryNext => retryPc = "raised"

\* three retries: four failed calls, then the raise
C10_Witness ==
    /\ AlwaysFails /\ maxRetries = 3 /\ retryPc = "raised" /\ calls = 4

\* C11: the delay after failed attempt a (from 0) is the smaller of
\* initialDelay * 2^a and maxDelay; an operation that always fails sees
\* exactly maxRetries delays, and no delay follows the final failed attempt.
C11_BackoffSchedule ==
    /\ \A i \in 1..Len(delays) :
           delays[i] = IF initialDelayMs * 2^(i - 1) < maxDelayMs
                       THEN initialDelayMs * 2^(i - 1) ELSE maxDelayMs
    /\ Len(delays) <= maxRetries
    /\ retryPc = "delay" => (calls = Len(delays) + 1 /\ calls <= maxRetries)
    /\ (AlwaysFails /\ retryPc = "raised") => Len(delays) = maxRetries

\* three retries from 500 ms under a cap of 1500 ms: the third delay is capped
C11_Witness ==
    /\ AlwaysFails /\ retryPc = "raised"
    /\ delays = <<500, 1000, 1500>>

\* C12: when every attempt fails, the error raised is that of the last
\* attempt (as an Error: a thrown value that is no Error instance is raised
\* wrapped in one), never that of an earlier attempt.
C12_RaisesLastError ==
    /\ calls > 0 /\ lastError # NullError => lastError.isError
    /\ retryPc = "raised" => (lastError.from = calls /\ lastError.isError)

\* four failed calls, the raised error is the one of the fourth
C12_Witness ==
    /\ retryPc = "raised" /\ calls = 4 /\ lastError.from = 4

----------------------------------------------------------------------------
(* Claims about classifyAndAddRepos, checked under SpecOrch.               *)

Repos == 1..Len(orchRepos)
Done == orchPc = "done"
Settled(i) == itemSt[i] \in {"ok", "failed", "unmapped", "skipped"}
ReportedOk(i) == \E j \in 1..Len(reported) : reported[j].id = i /\ reported[j].ok
ReportedFailed(i) ==
    \E j \in 1..Len(reported) :
        reported[j].id = i /\ ~reported[j].ok /\ reported[j].reason # ""

\* C13: an assignment that fails k times, k no more than the retries of the
\* command, and then succeeds is attempted k + 1 times and no more, with the
\* k delays 500, 1000, 2000 between the attempts, and its repo is counted
\* and printed as a success.
C13_ScenarioD ==
    \A i \in Repos :
        (itemSt[i] \in {"ok", "failed"} /\ failsFirst[i] <= RetriesOf(command)) =>
            /\ itemSt[i] = "ok"
            /\ attempts[i] = failsFirst[i] + 1
            /\ itemDelays[i] = [j \in 1..failsFirst[i] |->
                                   IF 500 * 2^(j - 1) < 5000 THEN 500 * 2^(j - 1) ELSE 5000]
            /\ addResults[i].success
            /\ Done => (ReportedOk(i) /\ counted[i] = 1 /\ success >= 1)

\* classify: two failures, then the third attempt succeeds
C13_Witness ==
    /\ Done /\ command = "classify"
    /\ \E i \in Repos :
           /\ failsFirst[i] = 2 /\ attempts[i] = 3 /\ itemDelays[i] = <<500, 1000>>
           /\ ReportedOk(i)

\* C14: at the end success + failed is the number of repos, each repo
\* having been counted exactly once.
C14_TallyComplete ==
    Done => /\ success + failed = Len(orchRepos)
            /\ \A i \in Repos : counted[i] = 1

\* C15: at the end every repo is printed by its id, as a success or as a
\* failure with a reason, the repos of a batch whose oracle call failed
\* included.
C15_NoSilentLoss ==
    Done => \A i \in Repos : ReportedOk(i) \/ ReportedFailed(i)

\* C16: when the oracle call of a batch fails, failed grows by the size of
\* the batch and nothing else is counted, the loop goes to the next batch,
\* and no repo of the batch ever gets an assignment attempt or a mutation.
C16_OracleFailureSkipsBatch ==
    /\ [](\A i \in Repos :
             itemSt[i] = "skipped" =>
                 (attempts[i] = 0 /\ addCalls[i] = 0 /\ ~addResults[i].done))
    /\ [][(Len(oracleLog') = Len(oracleLog) + 1 /\ ~oracleLog'[Len(oracleLog')]) =>
             /\ failed' = failed + Len(Batch)
             /\ success' = success
             /\ \A i \in BatchSet : itemSt'[i] = "skipped"
             /\ batchIdx' = batchIdx + 1
             /\ orchPc' = "loop"]_vars

\* the oracle call of a first batch of two failed, and the second batch was
\* then classified and applied
C16_Witness ==
    /\ Done /\ Len(oracleLog) = 2 /\ ~oracleLog[1] /\ oracleLog[2]
    /\ Len(slices[1]) = 2 /\ failed >= 2
    /\ \E i \in Repos : itemSt[i] = "ok"

\* C17: a batch other than the first starts only after the delay that
\* follows the batch before it, whether that batch's oracle call succeeded
\* or failed, and no delay follows the last batch.
C17_Pacing ==
    /\ \A k \in 1..(Len(slices) - 1) : (k - 1) \in paced
    /\ Done => (batchIdx - 1) \notin paced

\* C18: the run ends: the loop makes no more rounds than there are repos
\* (every round takes at least one), and the tally is printed in the end.
C18_AlwaysCompletes ==
    /\ [](Len(slices) <= Len(orchRepos))
    /\ <>Done

RECURSIVE Flatten(_)
Flatten(ss) == IF ss = <<>> THEN <<>> ELSE Head(ss) \o Flatten(Tail(ss))

\* C19: no README fetch, oracle call or assignment of a batch starts before
\* every repo of the batches before it is done; the batches are the slices
\* of the input in order, and at the end each repo was in exactly one.
C19_BatchesInSequence ==
    /\ \A k \in 1..(Len(slices) - 1) : \A j \in 1..Len(slices[k]) : Settled(slices[k][j])
    /\ Flatten(slices) = SubSeq(orchRepos, 1, Len(Flatten(slices)))
    /\ \A i \in Repos :
           (\A k \in 1..Len(slices) : \A j \in 1..Len(slices[k]) : slices[k][j] # i) =>
               (readme[i] = "none" /\ itemSt[i] = "idle" /\ attempts[i] = 0)
    /\ Done => Flatten(slices) = orchRepos

C21_RetryPerItem ==
    \A i \in Repos :
        /\ attempts[i] <= RetriesOf("classify") + 1
        /\ itemSt[i] = "failed" => attempts[i] = RetriesOf("classify") + 1

\* C23: a repo none of whose outcome categories has a list is recorded as
\* failed, without a call of getRepositoryNodeId or addRepoToGitHubLists.
C23_UnmappedFailsWithoutCall ==
    \A i \in Repos :
        (/\ itemSt[i] \notin {"idle", "skipped"}
         /\ \A j \in 1..Len(outcome[i]) : outcome[i][j] \notin CreatedListNames) =>
            /\ itemSt[i] = "unmapped"
            /\ attempts[i] = 0 /\ addCalls[i] = 0
            /\ addResults[i].done /\ ~addResults[i].success
            /\ Done => (counted[i] = 1 /\ failed >= 1 /\ ~ReportedOk(i))

\* a repo classified into the category without a list, at the end of a run
C23_Witness ==
    /\ Done
    /\ \E i \in Repos : outcome[i] = <<CatB>> /\ itemSt[i] = "unmapped" /\ addCalls[i] = 0

----------------------------------------------------------------------------
(* Claims about the enrichment step, checked under SpecEnrich.             *)

InFlightFetches == {i \in Repos : readme[i] = "pending"}
ArgsPresent(i) == fetchArgs[i].token # "" /\ fetchArgs[i].owner # "" /\ fetchArgs[i].name # ""

\* addRepoToGitHubLists has returned for repo i: an attempt that was not
\* to fail sent the mutation
MutationReturned(i) == itemSt[i] = "ok" /\ attempts[i] > failsFirst[i] /\ addCalls[i] >= 1

\* C36: a repo is recorded, counted and printed as succeeded exactly when
\* its assignment returned, and as failed otherwise: none is a success with
\* every attempt failed or with no attempt made.
C36_SuccessOnlyAfterMutation ==
    /\ \A i \in 1..Len(orchRepos) :
           addResults[i].done => (addResults[i].success <=> MutationReturned(i))
    /\ \A k \in 1..Len(reported) :
           reported[k].id # 0 => (reported[k].ok <=> MutationReturned(reported[k].id))
    /\ success = Cardinality({i \in 1..Len(orchRepos) : counted[i] >= 1 /\ MutationReturned(i)})
    /\ failed = Cardinality({i \in 1..Len(orchRepos) : counted[i] >= 1 /\ ~MutationReturned(i)})

\* a run of classify that is over: the first repo was assigned on its
\* second attempt, the second had every attempt fail, the third had no list
C36_Witness ==
    /\ orchPc = "done" /\ command = "classify" /\ Len(orchRepos) = 3
    /\ MutationReturned(1) /\ attempts[1] = 2
    /\ itemSt[2] = "failed" /\ attempts[2] = 4
    /\ itemSt[3] = "unmapped" /\ attempts[3] = 0
    /\ success = 1 /\ failed = 2
    /\ {reported[k].id : k \in {x \in 1..Len(reported) : reported[x].ok}} = {1}

\* C37: for every repo recorded as succeeded the categories printed as
\* applied are the categories whose lists it was added to.
C37_ReportedAreApplied ==
    \A i \in 1..Len(orchRepos) :
        addResults[i].success =>
            {ReportedCategories(outcome[i])[j] : j \in 1..Len(ReportedCategories(outcome[i]))}
                = {KnownNames(outcome[i])[j] : j \in 1..Len(KnownNames(outcome[i]))}

Distinct(seq) == \A a, b \in 1..Len(seq) : a # b => seq[a] # seq[b]

\* C38: no outcome of a batch call names a category twice, and the list ids
\* that the add phase derives from an outcome are pairwise distinct.
C38_NoRepeatedCategory ==
    parsePc = "returned" =>
        \A j \in 1..Len(resultMap) :
            Distinct(resultMap[j].v) /\ Distinct(ListIds(resultMap[j].v))

\* C24: the README fetches of a batch in flight at the same time never
\* exceed the ceiling of the bounded runner (5).
C24_BoundedFetches ==
    Cardinality(InFlightFetches) <= ApplyCeiling("classify")

\* C25 as stated: whatever the arguments, no fetch raises and the batch is
\* never aborted.
C25_NeverRaises ==
    /\ \A i \in Repos : readme[i] # "raised"
    /\ orchPc # "aborted"

\* C25, amended: for a non-empty token, owner and name the fetch yields null
\* on every backend failure and never raises, and the batch is aborted only
\* by a fetch that was handed an empty argument.
C25_FetchYieldsNull ==
    /\ \A i \in Repos :
           ArgsPresent(i) =>
               /\ readme[i] # "raised"
               /\ \A reply \in BackendFailures :
                      FetchRepositoryReadme(fetchArgs[i], reply) = FetchReturned("null")
    /\ orchPc = "aborted" => \E i \in Repos : ~ArgsPresent(i) /\ readme[i] = "raised"

\* a batch of two goes on to the oracle after its fetches returned
C25_Witness ==
    /\ orchPc = "classify" /\ Len(orchRepos) = 2
    /\ \A i \in Repos : ArgsPresent(i) /\ readme[i] = "done"

\* a batch in which one fetch failed and gave null while another is served
C25_NullWitness ==
    /\ orchPc = "readme"
    /\ \A i \in Repos : ArgsPresent(i)
    /\ \E i, j \in Repos : readme[i] = "null" /\ readme[j] = "text"

----------------------------------------------------------------------------
(* Claims about the commands, checked under SpecCmd.                       *)

Logged(ops) == {k \in 1..Len(log) : log[k].op \in ops}

\* C22: with an empty category set there is no oracle classification call,
\* no outcome and no attempt to add a repo to a list.
C22_EmptySetAborts ==
    cmdCategories = <<>> =>
        /\ Logged({"oracle", "add"}) = {}
        /\ cmdOutcome = <<>>

\* C30: run --dry-run deletes no list, creates no list and adds no repo to
\* a list, on any path, and it ends once the categories were shown.
C30_DryRunChangesNothing ==
    /\ [](cli.name = "run" /\ cli.dryRun =>
            /\ Logged({"delete", "create", "add", "oracle"}) = {}
            /\ cmdPc \notin {"delete", "deleting", "create", "creating", "classify", "adding"}
            /\ shown => cmdPc = "returned")
    /\ [][cli.name = "run" /\ cli.dryRun => UNCHANGED <<ghLists, members>>]_vars

\* a dry run over existing lists that planned its categories and showed them
C30_Witness ==
    /\ cli.name = "run" /\ cli.dryRun /\ ~cli.onlyNew
    /\ ghLists = {CatA, CatB} /\ members = {<<CatA, 1>>}
    /\ cmdCategories = <<CatA, CatB>>
    /\ log = <<Event("plan", TRUE)>>
    /\ shown /\ cmdPc = "returned"

\* C31: run --only-new deletes no list and creates none, classifies with
\* the existing lists as the category set, and classifies only repos that
\* are in no existing list.
C31_OnlyNewKeepsLists ==
    /\ [](cli.name = "run" /\ cli.onlyNew =>
            /\ Logged({"delete", "create"}) = {}
            /\ cmdPc \in {"classify", "adding"} =>
                   cmdCategories = InListOrder(ghLists) /\ createdLists = ghLists
            /\ cmdPc = "classify" =>
                   \A i \in 1..Len(cmdRepos) : cmdRepos[i] \notin {m[2] : m \in members})
    /\ [][cli.name = "run" /\ cli.onlyNew => UNCHANGED ghLists]_vars

\* no call of an op of later is logged before a call of an op of earlier
Precede(earlier, later) ==
    \A k \in Logged(later) : \A l \in Logged(earlier) : l < k

\* C32: in the full run the plan comes before every deletion, every
\* deletion before every creation, and the first classification call and
\* the first addition come after a creation was attempted for every category.
C32_PlanDeleteCreateClassify ==
    (cli.name = "run" /\ ~cli.onlyNew) =>
        /\ Precede({"plan"}, {"delete", "create", "oracle", "add"})
        /\ Precede({"delete"}, {"create", "oracle", "add"})
        /\ Precede({"create"}, {"oracle", "add"})
        /\ Logged({"oracle", "add"}) # {} =>
               Cardinality(Logged({"create"})) = Len(cmdCategories)

\* two lists deleted, two created, one classification call, a repo added
C32_Witness ==
    /\ cli.name = "run" /\ ~cli.onlyNew /\ cmdPc = "returned"
    /\ [k \in 1..Len(log) |-> log[k].op] =
           <<"plan", "delete", "delete", "create", "create", "oracle", "add">>

DeleteLoopOver == deleteTotal > 0 /\ cmdPc # "deleting"
Succeeded_Deletes == {k \in 1..Len(deleteLog) : deleteLog[k].ok}

\* C39: deleteAllGitHubLists calls deleteGitHubList once for every list it
\* fetched, a failure does not end the loop, deletedCount is the number of
\* calls that succeeded, and onProgress is called with 1, 2, ... and the
\* total, once per success.
C39_DeleteAll ==
    /\ \A k, l \in 1..Len(deleteLog) : deleteLog[k].name = deleteLog[l].name => k = l
    /\ cmdPc = "deleting" => Len(deleteLog) + Len(pending) = deleteTotal
    /\ DeleteLoopOver => Len(deleteLog) = deleteTotal
    /\ (DeleteLoopOver /\ cmdPc = "create") =>
           ghLists = {deleteLog[k].name : k \in 1..Len(deleteLog) \ Succeeded_Deletes}
    /\ deletedCount = Cardinality(Succeeded_Deletes)
    /\ Len(progress) = deletedCount /\ deletedCount <= deleteTotal
    /\ \A k \in 1..Len(progress) : progress[k] = <<k, deleteTotal>>

\* the first of two deletions failed, the second was made and counted
C39_Witness ==
    /\ cmdPc = "create" /\ deleteTotal = 2
    /\ deleteLog = <<[name |-> CatA, ok |-> FALSE], [name |-> CatB, ok |-> TRUE]>>
    /\ deletedCount = 1 /\ progress = <<<<1, 2>>>>
    /\ ghLists = {CatA}

====
